---- MODULE Spec2Model ----
(***************************************************************************)
(* A model of the valuation session of backend/models.py (class            *)
(* ValuationModels): the statement caches, the frequency normaliser, the   *)
(* field resolver, the four valuation models, the sensitivity grid and the *)
(* aggregation of calculate_all_models.                                    *)
(*                                                                         *)
(* Numbers.  Python floats are modelled as exact rationals <<n, d>> in     *)
(* lowest terms with d > 0.  Money is counted in units of 10^8 VND and     *)
(* shares in units of 10^8 shares, so a per-share value is in VND.         *)
(* Strings.  A string is the sequence of its characters, so that lower(),  *)
(* strip(), split('(') and the substring test `in` are computed.           *)
(***************************************************************************)
EXTENDS Integers, Sequences, FiniteSets, TLC

VARIABLES
    session,       \* the ValuationModels instance: its inputs and its five caches
    world,         \* what lies outside it: the vnstock accessors and the json files
    assumptions,   \* the assumption set the caller passes to the models
    arg,           \* the arguments of a helper that is called on its own; in
                   \* SpecOrder the models called so far, in SpecTwice their count
    last           \* the last operation, what it returned and its local values

vars == <<session, world, assumptions, arg, last>>

\* Python's None.  No slot of the model holds both None and an empty dict,
\* list or string, which are the empty sequence as well.
None == <<>>

-----------------------------------------------------------------------------
(* Rational arithmetic (Python float arithmetic, taken exactly).            *)

Abs(n) == IF n < 0 THEN -n ELSE n

Min(a, b) == IF a < b THEN a ELSE b

RECURSIVE GCD(_, _)
GCD(a, b) == IF b = 0 THEN a ELSE GCD(b, a % b)

R(n, d) ==
    LET g == GCD(Abs(n), Abs(d))
        s == IF d < 0 THEN -1 ELSE 1
    IN  <<(s * n) \div g, (s * d) \div g>>

RInt(n) == <<n, 1>>

IsNum(x) == x \in Int \X Int

RNeg(x) == <<-x[1], x[2]>>

RAdd(x, y) ==
    LET g == GCD(x[2], y[2])
    IN  R(x[1] * (y[2] \div g) + y[1] * (x[2] \div g), (x[2] \div g) * y[2])

RSub(x, y) == RAdd(x, RNeg(y))

RMul(x, y) ==
    LET g1 == GCD(Abs(x[1]), y[2])
        g2 == GCD(Abs(y[1]), x[2])
    IN  <<(x[1] \div g1) * (y[1] \div g2), (x[2] \div g2) * (y[2] \div g1)>>

\* 1 / x, for x # 0
RInv(x) == IF x[1] < 0 THEN <<-x[2], -x[1]>> ELSE <<x[2], x[1]>>

\* x / y, for y # 0 (Python raises ZeroDivisionError otherwise)
RDiv(x, y) == RMul(x, RInv(y))

RIsZero(x) == x[1] = 0
RPos(x) == x[1] > 0
RLt(x, y) == RSub(x, y)[1] < 0
RLe(x, y) == RSub(x, y)[1] <= 0
RMax(x, y) == IF RLt(x, y) THEN y ELSE x
RAbs(x) == <<Abs(x[1]), x[2]>>

\* x ** n for an integer n >= 0
RECURSIVE RPow(_, _)
RPow(x, n) == IF n <= 0 THEN RInt(1) ELSE RMul(x, RPow(x, n - 1))

\* int(x): truncation towards zero
RTrunc(x) == IF x[1] >= 0 THEN x[1] \div x[2] ELSE -((-x[1]) \div x[2])

RFloor(x) == x[1] \div x[2]

\* round(x, 1): to one decimal, a tie going to the even digit
Round1(x) ==
    LET t == RMul(x, RInt(10))
        f == RFloor(t)
        twice == RSub(RMul(t, RInt(2)), RInt(2 * f))   \* 2 * fractional part
    IN  IF twice[1] < twice[2] THEN R(f, 10)
        ELSE IF twice[1] > twice[2] THEN R(f + 1, 10)
        ELSE IF f % 2 = 0 THEN R(f, 10) ELSE R(f + 1, 10)

RECURSIVE RSum(_)
RSum(s) == IF s = <<>> THEN RInt(0) ELSE RAdd(s[1], RSum(Tail(s)))

RECURSIVE RMinSeq(_)
RMinSeq(s) == IF Len(s) = 1 THEN s[1]
              ELSE LET m == RMinSeq(Tail(s)) IN IF RLt(m, s[1]) THEN m ELSE s[1]

RECURSIVE RMaxSeq(_)
RMaxSeq(s) == IF Len(s) = 1 THEN s[1]
              ELSE LET m == RMaxSeq(Tail(s)) IN IF RLt(s[1], m) THEN m ELSE s[1]

-----------------------------------------------------------------------------
(* Strings as character sequences.                                          *)

UPPER == <<"A","B","C","D","E","F","G","H","I","J","K","L","M","N","O","P","Q","R","S","T","U","V","W","X","Y","Z">>
LOWER == <<"a","b","c","d","e","f","g","h","i","j","k","l","m","n","o","p","q","r","s","t","u","v","w","x","y","z">>

LowerChar(c) ==
    IF \E i \in 1..Len(UPPER) : UPPER[i] = c
    THEN LOWER[CHOOSE i \in 1..Len(UPPER) : UPPER[i] = c]
    ELSE c

\* str.lower()
Lower(s) == [i \in 1..Len(s) |-> LowerChar(s[i])]

RECURSIVE LStrip(_)
LStrip(s) == IF s # <<>> /\ s[1] = " " THEN LStrip(Tail(s)) ELSE s

RECURSIVE RStrip(_)
RStrip(s) == IF s # <<>> /\ s[Len(s)] = " " THEN RStrip(SubSeq(s, 1, Len(s) - 1)) ELSE s

\* str.strip()
Strip(s) == RStrip(LStrip(s))

\* s.split('(')[0]
RECURSIVE SplitParenHead(_)
SplitParenHead(s) ==
    IF s = <<>> \/ s[1] = "(" THEN <<>> ELSE <<s[1]>> \o SplitParenHead(Tail(s))

\* sub in s
Contains(s, sub) ==
    \E k \in 0..(Len(s) - Len(sub)) : SubSeq(s, k + 1, k + Len(sub)) = sub

-----------------------------------------------------------------------------
(* Column names and keywords of the source.                                 *)

COL_yearReport == <<"y","e","a","r","R","e","p","o","r","t">>
COL_lengthReport == <<"l","e","n","g","t","h","R","e","p","o","r","t">>
COL_ticker == <<"t","i","c","k","e","r">>
COL_date == <<"d","a","t","e">>
COL_Quarter == <<"Q","u","a","r","t","e","r">>
KW_year == <<"y","e","a","r">>
KW_quarter == <<"q","u","a","r","t","e","r">>
KW_date == <<"d","a","t","e">>
KW_time == <<"t","i","m","e">>
KW_fixed == <<"f","i","x","e","d">>
KW_capital == <<"c","a","p","i","t","a","l">>
KW_listed_share == <<"l","i","s","t","e","d","_","s","h","a","r","e">>
NET_PROFIT == <<"N","e","t"," ","P","r","o","f","i","t"," ","F","o","r"," ","t","h","e"," ","Y","e","a","r">>
NET_PROFIT_BN == <<"N","e","t"," ","P","r","o","f","i","t"," ","F","o","r"," ","t","h","e"," ","Y","e","a","r"," ","(","B","n","."," ","V","N","D",")">>
NET_PROFIT_UP == <<"N","E","T"," ","P","R","O","F","I","T"," ","F","O","R"," ","T","H","E"," ","Y","E","A","R">>
INTEREST_EXPENSES == <<"I","n","t","e","r","e","s","t"," ","E","x","p","e","n","s","e","s">>
DEPRECIATION == <<"D","e","p","r","e","c","i","a","t","i","o","n"," ","a","n","d"," ","A","m","o","r","t","i","s","a","t","i","o","n">>
RECEIVABLES == <<"I","n","c","r","e","a","s","e","/","D","e","c","r","e","a","s","e"," ","i","n"," ","r","e","c","e","i","v","a","b","l","e","s">>
INVENTORIES == <<"I","n","c","r","e","a","s","e","/","D","e","c","r","e","a","s","e"," ","i","n"," ","i","n","v","e","n","t","o","r","i","e","s">>
PAYABLES == <<"I","n","c","r","e","a","s","e","/","D","e","c","r","e","a","s","e"," ","i","n"," ","p","a","y","a","b","l","e","s">>
PURCHASE_FIXED == <<"P","u","r","c","h","a","s","e"," ","o","f"," ","f","i","x","e","d"," ","a","s","s","e","t","s">>
PURCHASE_FIXED_BN == <<"P","u","r","c","h","a","s","e"," ","o","f"," ","f","i","x","e","d"," ","a","s","s","e","t","s"," ","(","B","n","."," ","V","N","D",")">>
DISPOSAL_FIXED == <<"P","r","o","c","e","e","d","s"," ","f","r","o","m"," ","d","i","s","p","o","s","a","l"," ","o","f"," ","f","i","x","e","d"," ","a","s","s","e","t","s">>
PROCEEDS_BORROWINGS == <<"P","r","o","c","e","e","d","s"," ","f","r","o","m"," ","b","o","r","r","o","w","i","n","g","s">>
REPAYMENT_BORROWINGS == <<"R","e","p","a","y","m","e","n","t"," ","o","f"," ","b","o","r","r","o","w","i","n","g","s">>
CAPITAL_CONTRIB == <<"I","n","c","r","e","a","s","e"," ","i","n"," ","c","h","a","r","t","e","r"," ","c","a","p","i","t","a","l">>
ST_BORROWINGS == <<"S","h","o","r","t","-","t","e","r","m"," ","b","o","r","r","o","w","i","n","g","s">>
ST_BORROWINGS_VI == <<"V","a","y"," ","v","U+00E0"," ","n","U+1EE3"," ","t","h","u","U+00EA"," ","t","U+00E0","i"," ","c","h","U+00ED","n","h"," ","n","g","U+1EAF","n"," ","h","U+1EA1","n">>
ST_DEBT == <<"S","h","o","r","t","-","t","e","r","m"," ","d","e","b","t">>
ST_VAY == <<"V","a","y"," ","n","g","U+1EAF","n"," ","h","U+1EA1","n">>
ST_VAY_LONG == <<"V","a","y"," ","n","g","U+1EAF","n"," ","h","U+1EA1","n"," ","v","U+00E0"," ","n","U+1EE3"," ","t","h","u","U+00EA"," ","t","U+00E0","i"," ","c","h","U+00ED","n","h"," ","n","g","U+1EAF","n"," ","h","U+1EA1","n">>
ST_BORROWINGS_LEASE == <<"S","h","o","r","t","-","t","e","r","m"," ","b","o","r","r","o","w","i","n","g","s"," ","a","n","d"," ","f","i","n","a","n","c","i","a","l"," ","l","e","a","s","e"," ","l","i","a","b","i","l","i","t","i","e","s">>
LT_BORROWINGS == <<"L","o","n","g","-","t","e","r","m"," ","b","o","r","r","o","w","i","n","g","s">>
LT_BORROWINGS_VI == <<"V","a","y"," ","v","U+00E0"," ","n","U+1EE3"," ","t","h","u","U+00EA"," ","t","U+00E0","i"," ","c","h","U+00ED","n","h"," ","d","U+00E0","i"," ","h","U+1EA1","n">>
LT_DEBT == <<"L","o","n","g","-","t","e","r","m"," ","d","e","b","t">>
LT_VAY == <<"V","a","y"," ","d","U+00E0","i"," ","h","U+1EA1","n">>
LT_VAY_LONG == <<"V","a","y"," ","d","U+00E0","i"," ","h","U+1EA1","n"," ","v","U+00E0"," ","n","U+1EE3"," ","t","h","u","U+00EA"," ","t","U+00E0","i"," ","c","h","U+00ED","n","h"," ","d","U+00E0","i"," ","h","U+1EA1","n">>
LT_BORROWINGS_LEASE == <<"L","o","n","g","-","t","e","r","m"," ","b","o","r","r","o","w","i","n","g","s"," ","a","n","d"," ","f","i","n","a","n","c","i","a","l"," ","l","e","a","s","e"," ","l","i","a","b","i","l","i","t","i","e","s">>
CASH_EQ == <<"C","a","s","h"," ","a","n","d"," ","c","a","s","h"," ","e","q","u","i","v","a","l","e","n","t","s">>
CASH_EQ_VI == <<"T","i","U+1EC1","n"," ","v","U+00E0"," ","c","U+00E1","c"," ","k","h","o","U+1EA3","n"," ","t","U+01B0","U+01A1","n","g"," ","U+0111","U+01B0","U+01A1","n","g"," ","t","i","U+1EC1","n">>
CASH == <<"C","a","s","h">>
CASH_VI == <<"T","i","U+1EC1","n">>
EQ_TOTAL_EQUITY == <<"T","o","t","a","l"," ","E","q","u","i","t","y">>
EQ_SHAREHOLDERS == <<"S","h","a","r","e","h","o","l","d","e","r","s"," ","E","q","u","i","t","y">>
EQ_TOTAL_SHAREHOLDERS_L == <<"T","o","t","a","l"," ","s","h","a","r","e","h","o","l","d","e","r","s"," ","e","q","u","i","t","y">>
EQ_TOTAL_SHAREHOLDERS == <<"T","o","t","a","l"," ","S","h","a","r","e","h","o","l","d","e","r","s"," ","E","q","u","i","t","y">>
EQ_EQUITY == <<"E","q","u","i","t","y">>
EQ_TOTAL_EQUITY_L == <<"T","o","t","a","l"," ","e","q","u","i","t","y">>
EQ_VON == <<"V","U+1ED1","n"," ","c","h","U+1EE7"," ","s","U+1EDF"," ","h","U+1EEF","u">>
EQ_TONG_VON == <<"T","U+1ED5","n","g"," ","v","U+1ED1","n"," ","c","h","U+1EE7"," ","s","U+1EDF"," ","h","U+1EEF","u">>
OWNERS_EQUITY_BN == <<"O","W","N","E","R","'","S"," ","E","Q","U","I","T","Y","(","B","n",".","V","N","D",")">>
TOTAL_ASSETS == <<"T","o","t","a","l"," ","A","s","s","e","t","s">>
TOTAL_ASSETS_UP == <<"T","O","T","A","L"," ","A","S","S","E","T","S">>
TOTAL_ASSETS_BN == <<"T","O","T","A","L"," ","A","S","S","E","T","S"," ","(","B","n","."," ","V","N","D",")">>
TOTAL_LIABILITIES == <<"T","o","t","a","l"," ","L","i","a","b","i","l","i","t","i","e","s">>
TOTAL_LIABILITIES_UP == <<"T","O","T","A","L"," ","L","I","A","B","I","L","I","T","I","E","S">>
LIABILITIES_BN == <<"L","I","A","B","I","L","I","T","I","E","S"," ","(","B","n","."," ","V","N","D",")">>
COL_listed_share == <<"l","i","s","t","e","d","_","s","h","a","r","e">>
COL_match_price == <<"m","a","t","c","h","_","p","r","i","c","e">>

-----------------------------------------------------------------------------
(* Statement tables (pandas DataFrames): the ordered column labels and the  *)
(* rows, each row the cells in column order.  A cell is a sequence: <<>>    *)
(* when missing (NaN, NaT), <<v>> for the number v, and the characters of   *)
(* the text for a text cell.                                                *)

NaN == <<>>

Num(v) == <<v>>

IsNumber(cell) == Len(cell) = 1

EmptyDataFrame == [columns |-> <<>>, rows |-> <<>>]

\* DataFrame.empty
IsEmpty(data) == Len(data.columns) = 0 \/ Len(data.rows) = 0

ColumnIndex(data, col) == CHOOSE j \in 1..Len(data.columns) : data.columns[j] = col

HasColumn(data, col) == \E j \in 1..Len(data.columns) : data.columns[j] = col

\* data[col]: the cells of column j, in row order
ColumnValues(data, j) == [i \in 1..Len(data.rows) |-> data.rows[i][j]]

NotNa(v) == v # NaN

\* Series.dropna()
DropNa(values) == SelectSeq(values, NotNa)

\* Series.sum() of cells that hold numbers
RECURSIVE IntSum(_)
IntSum(s) == IF s = <<>> THEN 0 ELSE s[1][1] + IntSum(Tail(s))

\* data.head(n) cut one row too late
DataHead_OffByOne(data, n) ==
    [data EXCEPT !.rows = SubSeq(data.rows, 1, Min(n + 1, Len(data.rows)))]

\* DataFrame.head(n)
DataHead(data, n) == [data EXCEPT !.rows = SubSeq(data.rows, 1, Min(n, Len(data.rows)))]

-----------------------------------------------------------------------------
(* What the source computes from a column label or a target name.  The      *)
(* labels of the model form a finite set, so each result is computed once   *)
(* from the characters and then looked up.                                  *)

KnownNames ==
    { COL_yearReport, COL_lengthReport, COL_ticker, COL_date, COL_Quarter,
      NET_PROFIT, NET_PROFIT_BN, NET_PROFIT_UP, INTEREST_EXPENSES,
      DEPRECIATION, RECEIVABLES, INVENTORIES, PAYABLES, PURCHASE_FIXED,
      PURCHASE_FIXED_BN, DISPOSAL_FIXED, PROCEEDS_BORROWINGS,
      REPAYMENT_BORROWINGS, CAPITAL_CONTRIB, ST_BORROWINGS, ST_BORROWINGS_VI,
      ST_DEBT, ST_VAY, ST_VAY_LONG, ST_BORROWINGS_LEASE, LT_BORROWINGS,
      LT_BORROWINGS_VI, LT_DEBT, LT_VAY, LT_VAY_LONG, LT_BORROWINGS_LEASE,
      CASH_EQ, CASH_EQ_VI, CASH, CASH_VI, EQ_TOTAL_EQUITY, EQ_SHAREHOLDERS,
      EQ_TOTAL_SHAREHOLDERS_L, EQ_TOTAL_SHAREHOLDERS, EQ_EQUITY,
      EQ_TOTAL_EQUITY_L, EQ_VON, EQ_TONG_VON, OWNERS_EQUITY_BN, TOTAL_ASSETS,
      TOTAL_ASSETS_UP, TOTAL_ASSETS_BN, TOTAL_LIABILITIES,
      TOTAL_LIABILITIES_UP, LIABILITIES_BN, COL_listed_share,
      COL_match_price }

TimeKeywords == <<KW_year, KW_quarter, KW_date, KW_time>>

equity_names ==
    <<EQ_TOTAL_EQUITY, EQ_SHAREHOLDERS, EQ_TOTAL_SHAREHOLDERS_L, EQ_TOTAL_SHAREHOLDERS,
      EQ_EQUITY, EQ_TOTAL_EQUITY_L, EQ_VON, EQ_TONG_VON>>

NameInfo ==
    [s \in KnownNames |->
        [ \* target_col.lower().strip(), str(data_col).lower().strip()
          lower_strip |-> Strip(Lower(s)),
          \* str(data_col).split('(')[0].strip().lower()
          data_col_clean |-> Lower(Strip(SplitParenHead(s))),
          fixed |-> Contains(Lower(s), KW_fixed),
          capital |-> Contains(Lower(s), KW_capital),
          time |-> \E k \in 1..Len(TimeKeywords) : Contains(Lower(s), TimeKeywords[k]),
          quarter |-> Contains(s, COL_lengthReport) \/ Contains(Lower(s), KW_quarter),
          listed_share |-> Contains(Lower(s), KW_listed_share),
          equity |-> \E k \in 1..Len(equity_names) :
                        Contains(Lower(s), Lower(equity_names[k])) ]]

-----------------------------------------------------------------------------
(* check_data_frequency: the frequency normaliser.                          *)
(* The result is [raised, freq, data]; raised stands for an exception that  *)
(* leaves the function (int() of a missing period cell).                    *)

\* line 325: any(kw in col.lower() for kw in ['year', 'quarter', 'date', 'time'])
IsTimeCol(col) == NameInfo[col].time

\* line 326: 'lengthReport' in col or 'quarter' in col.lower()
IsQuarterCol(col) == NameInfo[col].quarter

\* r1 sorts strictly before r2, descending on the key columns, missing cells last
RECURSIVE RowBefore(_, _, _)
RowBefore(r1, r2, keys) ==
    IF keys = <<>> THEN FALSE
    ELSE LET a == r1[keys[1]]
             b == r2[keys[1]]
         IN  IF a = b THEN RowBefore(r1, r2, Tail(keys))
             ELSE IF a = NaN THEN FALSE
             ELSE IF b = NaN THEN TRUE
             ELSE a[1] > b[1]

RECURSIVE InsertRow(_, _, _)
InsertRow(sorted, r, keys) ==
    IF sorted = <<>> THEN <<r>>
    ELSE IF RowBefore(r, sorted[1], keys) THEN <<r>> \o sorted
    ELSE <<sorted[1]>> \o InsertRow(Tail(sorted), r, keys)

RECURSIVE SortRows(_, _, _)
SortRows(rows, keys, done) ==
    IF rows = <<>> THEN done
    ELSE SortRows(Tail(rows), keys, InsertRow(done, rows[1], keys))

\* data.sort_values(keys, ascending=False).reset_index(drop=True); ties keep
\* their order
sort_values(data, keys) == [data EXCEPT !.rows = SortRows(data.rows, keys, <<>>)]

\* pd.to_datetime(v, errors='coerce'): a number parses, anything else is NaT
ToDatetime(cell) == IF IsNumber(cell) THEN cell ELSE NaN

CoerceColumn(data, j) ==
    [data EXCEPT !.rows = [i \in 1..Len(data.rows) |->
                              [data.rows[i] EXCEPT ![j] = ToDatetime(@)]]]

FullYearLength == 4

QuarterWindow == 4

check_data_frequency(data, expected_frequency) ==
    LET time_cols == SelectSeq(data.columns, IsTimeCol)
        quarter_col == SelectSeq(data.columns, IsQuarterCol)
    IN
    IF time_cols = <<>> /\ quarter_col = <<>>
    THEN [raised |-> FALSE, freq |-> expected_frequency, data |-> data]
    ELSE IF HasColumn(data, COL_yearReport) /\ HasColumn(data, COL_lengthReport)
    THEN LET y == ColumnIndex(data, COL_yearReport)
             l == ColumnIndex(data, COL_lengthReport)
             sorted == sort_values(data, <<y, l>>)
         IN  IF expected_frequency = "quarter"
             THEN LET latest_quarters == DataHead(sorted, QuarterWindow)
                  IN  IF \E i \in 1..Len(latest_quarters.rows) :
                             latest_quarters.rows[i][y] = NaN \/ latest_quarters.rows[i][l] = NaN
                      THEN [raised |-> TRUE]
                      ELSE [raised |-> FALSE, freq |-> "quarter", data |-> latest_quarters]
             ELSE LET full == [sorted EXCEPT !.rows =
                                  SelectSeq(sorted.rows, LAMBDA r : r[l] = Num(FullYearLength))]
                      latest_year == IF full.rows # <<>> THEN DataHead(full, 1)
                                     ELSE DataHead(sorted, 1)
                  IN  [raised |-> FALSE, freq |-> "year", data |-> latest_year]
    ELSE IF time_cols # <<>>
    THEN LET t == ColumnIndex(data, time_cols[1])
             parsed == CoerceColumn(data, t)
         IN  IF DropNa(ColumnValues(parsed, t)) # <<>>
             THEN LET sorted == sort_values(parsed, <<t>>)
                  IN  IF expected_frequency = "quarter"
                      THEN [raised |-> FALSE, freq |-> "quarter",
                            data |-> DataHead(sorted, QuarterWindow)]
                      ELSE [raised |-> FALSE, freq |-> "year", data |-> DataHead(sorted, 1)]
             ELSE [raised |-> FALSE, freq |-> expected_frequency, data |-> DataHead(parsed, 1)]
    ELSE [raised |-> FALSE, freq |-> expected_frequency, data |-> DataHead(data, 1)]

-----------------------------------------------------------------------------
(* find_financial_value: the field resolver.                                *)

\* the comparison of line 385 loosened to containment of the target name
ColumnMatches_Substring(target_col, data_col) ==
    Contains(NameInfo[data_col].lower_strip, NameInfo[target_col].lower_strip)

\* the comparison of line 385, on the cleaned and on the raw column label
ColumnMatches(target_col, data_col) ==
    LET target_clean == NameInfo[target_col].lower_strip
        data_col_clean == NameInfo[data_col].data_col_clean
    IN  target_clean = data_col_clean \/ target_clean = NameInfo[data_col].lower_strip

\* the window's sum when quarterly, else the first value that is not missing
CurrentSum(values, is_quarterly) ==
    IF is_quarterly THEN IntSum(DropNa(values)) ELSE DropNa(values)[1][1]

\* line 396 with the 'capital' test left out
IsAccumulating_FixedOnly(target_col) == NameInfo[target_col].fixed

\* line 396: a target that accumulates over every matching column
IsAccumulating(target_col) ==
    NameInfo[target_col].fixed \/ NameInfo[target_col].capital

\* the loop over data.columns for one target; acc is [total, found]
RECURSIVE ScanDataColumns(_, _, _, _, _)
ScanDataColumns(data, target_col, is_quarterly, j, acc) ==
    IF j > Len(data.columns) THEN acc
    ELSE IF ColumnMatches(target_col, data.columns[j])
            /\ DropNa(ColumnValues(data, j)) # <<>>
    THEN LET current_sum == CurrentSum(ColumnValues(data, j), is_quarterly)
         IN  IF IsAccumulating(target_col)
             THEN ScanDataColumns(data, target_col, is_quarterly, j + 1,
                                  [acc EXCEPT !.total = @ + current_sum])
             ELSE [total |-> current_sum, found |-> TRUE]
    ELSE ScanDataColumns(data, target_col, is_quarterly, j + 1, acc)

\* line 404: whether the loop over the targets stops after this one
StopsAfter(target_col, found) == found /\ ~NameInfo[target_col].fixed

\* the loop over column_names
RECURSIVE ScanTargets(_, _, _, _, _)
ScanTargets(data, column_names, is_quarterly, i, total) ==
    IF i > Len(column_names) THEN total
    ELSE LET target_col == column_names[i]
             r == ScanDataColumns(data, target_col, is_quarterly, 1,
                                  [total |-> total, found |-> FALSE])
         IN  IF StopsAfter(target_col, r.found) THEN r.total
             ELSE ScanTargets(data, column_names, is_quarterly, i + 1, r.total)

find_financial_value(data, column_names, is_quarterly) ==
    IF IsEmpty(data) THEN 0
    ELSE ScanTargets(data, column_names, is_quarterly, 1, 0)

-----------------------------------------------------------------------------
(* The session: ValuationModels.__init__, the cached statement accessors    *)
(* and the shares lookup.  Every operation takes the instance and returns   *)
(* it as the operation leaves it, next to what the operation returns;       *)
(* raised stands for an exception that leaves the operation.                *)

\* dict.get(k, default)
Get(d, k, default) == IF k \in DOMAIN d THEN d[k] ELSE default

\* d[k] = v
Put(d, k, v) == [j \in DOMAIN d \cup {k} |-> IF j = k THEN v ELSE d[j]]

\* the calls made on the vnstock accessors and the reads of the json files;
\* the code keeps no such count, the properties use it
NoFetches ==
    [income_statement |-> <<>>, cash_flow |-> <<>>, balance_sheet |-> <<>>,
     price_board |-> 0, stock_file |-> 0, sector_peers_file |-> 0]

\* __init__: stock_data or {}, the symbol, and the five empty caches
NewSession(stock_data, stock_symbol) ==
    [stock_data |-> stock_data,
     stock_symbol |-> stock_symbol,
     income_data_cache |-> <<>>,
     cash_flow_data_cache |-> <<>>,
     balance_data_cache |-> <<>>,
     shares_outstanding_cache |-> None,
     sector_peers_cache |-> None,
     fetches |-> NoFetches]

\* self.stock is set only when the symbol is truthy (lines 15-17)
HasStock(self) == self.stock_symbol # <<>>

\* one call of self.stock.finance.<accessor>(period=period)
Called(self, accessor, period) ==
    [self EXCEPT !.fetches[accessor] = Put(@, period, Get(@, period, 0) + 1)]

\* the accessor's answer is returned and not kept
get_cached_data_Unstored(self, outside, cache, accessor, period) ==
    IF HasStock(self)
    THEN IF outside[accessor].raises
         THEN [raised |-> TRUE, self |-> Called(self, accessor, period)]
         ELSE [raised |-> FALSE, ret |-> outside[accessor].data,
               self |-> Called(self, accessor, period)]
    ELSE [raised |-> FALSE, ret |-> EmptyDataFrame, self |-> self]

\* a fetch that raises leaves an empty table in the cache
get_cached_data_FailureKept(self, outside, cache, accessor, period) ==
    IF period \in DOMAIN self[cache]
    THEN [raised |-> FALSE, ret |-> self[cache][period], self |-> self]
    ELSE IF HasStock(self) /\ ~outside[accessor].raises
    THEN [raised |-> FALSE, ret |-> outside[accessor].data,
          self |-> [Called(self, accessor, period) EXCEPT
                      ![cache] = Put(@, period, outside[accessor].data)]]
    ELSE [raised |-> HasStock(self), ret |-> EmptyDataFrame,
          self |-> [(IF HasStock(self) THEN Called(self, accessor, period) ELSE self)
                      EXCEPT ![cache] = Put(@, period, EmptyDataFrame)]]

\* the body shared by the three cached accessors; the cache key
\* f"<kind>_{period}" of a cache is modelled by the period
get_cached_data(self, outside, cache, accessor, period) ==
    IF period \in DOMAIN self[cache]
    THEN [raised |-> FALSE, ret |-> self[cache][period], self |-> self]
    ELSE IF HasStock(self)
    THEN LET called == Called(self, accessor, period)
             answer == outside[accessor]
         IN  IF answer.raises
             THEN [raised |-> TRUE, self |-> called]
             ELSE [raised |-> FALSE, ret |-> answer.data,
                   self |-> [called EXCEPT ![cache] = Put(@, period, answer.data)]]
    ELSE [raised |-> FALSE, ret |-> EmptyDataFrame,
          self |-> [self EXCEPT ![cache] = Put(@, period, EmptyDataFrame)]]

get_cached_income_data(self, outside, period) ==
    get_cached_data(self, outside, "income_data_cache", "income_statement", period)

get_cached_cash_flow_data(self, outside, period) ==
    get_cached_data(self, outside, "cash_flow_data_cache", "cash_flow", period)

get_cached_balance_data(self, outside, period) ==
    get_cached_data(self, outside, "balance_data_cache", "balance_sheet", period)

\* 1_000_000_000 shares, counted in units of 10^8 shares
DEFAULT_SHARES_OUTSTANDING == 10

\* the lookup without the default
SuppliedShares_NoDefault(self) == Get(self.stock_data, "shares_outstanding", RInt(0))

\* self.stock_data.get('shares_outstanding', 1_000_000_000)
SuppliedShares(self) ==
    Get(self.stock_data, "shares_outstanding", RInt(DEFAULT_SHARES_OUTSTANDING))

\* the value is returned and the default is stored
CacheShares_DefaultKept(self, result) ==
    [ret |-> result,
     self |-> [self EXCEPT !.shares_outstanding_cache = RInt(DEFAULT_SHARES_OUTSTANDING)]]

\* the value is stored and returned
CacheShares(self, result) ==
    [ret |-> result, self |-> [self EXCEPT !.shares_outstanding_cache = result]]

get_shares_outstanding(self, outside) ==
    IF self.shares_outstanding_cache # None
    THEN [ret |-> self.shares_outstanding_cache, self |-> self]
    ELSE IF ~HasStock(self)
    THEN CacheShares(self, SuppliedShares(self))
    ELSE LET called == [self EXCEPT !.fetches.price_board = @ + 1]
             price_board == outside.price_board
             listed == { j \in 1..Len(price_board.data.columns) :
                           NameInfo[price_board.data.columns[j]].listed_share }
             col == CHOOSE j \in listed : \A k \in listed : j <= k
         IN  IF price_board.raises \/ (listed # {} /\ price_board.data.rows = <<>>)
             THEN CacheShares(called, SuppliedShares(called))
             ELSE IF listed = {}
             THEN CacheShares(called, RInt(DEFAULT_SHARES_OUTSTANDING))
             ELSE CacheShares(called, RInt(price_board.data.rows[1][col][1]))

-----------------------------------------------------------------------------
(* get_sector_peers: the peer statistics of the subject's sector.          *)

SECTOR_FOOD_BEVERAGE == <<"T","h","U+1EF1","c"," ","p","h","U+1EA9","m"," ","v","U+00E0"," ","U+0111","U+1ED3"," ","u","U+1ED1","n","g">>
SECTOR_BANKS == <<"N","g","U+00E2","n"," ","h","U+00E0","n","g">>
SECTOR_FINANCIAL_SERVICES == <<"D","U+1ECB","c","h"," ","v","U+1EE5"," ","t","U+00E0","i"," ","c","h","U+00ED","n","h">>
SECTOR_REAL_ESTATE == <<"B","U+1EA5","t"," ","U+0111","U+1ED9","n","g"," ","s","U+1EA3","n">>
SECTOR_CONSTRUCTION_MATERIALS == <<"X","U+00E2","y"," ","d","U+1EF1","n","g"," ","v","U+00E0"," ","V","U+1EAD","t"," ","l","i","U+1EC7","u">>
SECTOR_INDUSTRIAL_GOODS == <<"H","U+00E0","n","g"," ","&"," ","D","U+1ECB","c","h"," ","v","U+1EE5"," ","C","U+00F4","n","g"," ","n","g","h","i","U+1EC7","p">>
SECTOR_CHEMICALS == <<"H","U+00F3","a"," ","c","h","U+1EA5","t">>
SECTOR_HEALTH_CARE == <<"Y"," ","t","U+1EBF">>
SECTOR_UTILITIES == <<"U+0110","i","U+1EC7","n",","," ","n","U+01B0","U+1EDB","c"," ","&"," ","x","U+0103","n","g"," ","d","U+1EA7","u"," ","k","h","U+00ED"," ","U+0111","U+1ED1","t">>
SECTOR_RETAIL == <<"B","U+00E1","n"," ","l","U+1EBB">>
SECTOR_TECHNOLOGY == <<"C","U+00F4","n","g"," ","n","g","h","U+1EC7"," ","T","h","U+00F4","n","g"," ","t","i","n">>
SECTOR_BASIC_RESOURCES == <<"T","U+00E0","i"," ","n","g","u","y","U+00EA","n"," ","C","U+01A1"," ","b","U+1EA3","n">>

\* the alias table of lines 192-231, in the order of the source
sector_mapping ==
    <<
       <<<<"S","U+1EA3","n"," ","x","u","U+1EA5","t"," ","t","h","U+1EF1","c"," ","p","h","U+1EA9","m">>,
         SECTOR_FOOD_BEVERAGE>>,
       <<<<"U+0110","U+1ED3"," ","u","U+1ED1","n","g">>,
         SECTOR_FOOD_BEVERAGE>>,
       <<<<"T","h","u","U+1ED1","c"," ","l","U+00E1">>,
         SECTOR_FOOD_BEVERAGE>>,
       <<<<"N","g","U+00E2","n"," ","h","U+00E0","n","g"," ","t","h","U+01B0","U+01A1","n","g"," ","m","U+1EA1","i">>,
         SECTOR_BANKS>>,
       <<<<"C","h","U+1EE9","n","g"," ","k","h","o","U+00E1","n">>,
         SECTOR_FINANCIAL_SERVICES>>,
       <<<<"T","U+00E0","i"," ","c","h","U+00ED","n","h"," ","t","i","U+00EA","u"," ","d","U+00F9","n","g">>,
         SECTOR_FINANCIAL_SERVICES>>,
       <<<<"U+0110","U+1EA7","u"," ","t","U+01B0"," ","t","U+00E0","i"," ","c","h","U+00ED","n","h">>,
         SECTOR_FINANCIAL_SERVICES>>,
       <<<<"P","h","U+00E1","t"," ","t","r","i","U+1EC3","n"," ","B","U+1EA5","t"," ","U+0111","U+1ED9","n","g"," ","s","U+1EA3","n">>,
         SECTOR_REAL_ESTATE>>,
       <<<<"D","U+1ECB","c","h"," ","v","U+1EE5"," ","B","U+1EA5","t"," ","U+0111","U+1ED9","n","g"," ","s","U+1EA3","n">>,
         SECTOR_REAL_ESTATE>>,
       <<<<"X","U+00E2","y"," ","d","U+1EF1","n","g">>,
         SECTOR_CONSTRUCTION_MATERIALS>>,
       <<<<"V","U+1EAD","t"," ","l","i","U+1EC7","u"," ","x","U+00E2","y"," ","d","U+1EF1","n","g">>,
         SECTOR_CONSTRUCTION_MATERIALS>>,
       <<<<"V","U+1EAD","n"," ","t","U+1EA3","i">>,
         SECTOR_INDUSTRIAL_GOODS>>,
       <<<<"L","o","g","i","s","t","i","c","s">>,
         SECTOR_INDUSTRIAL_GOODS>>,
       <<<<"D","U+1ECB","c","h"," ","v","U+1EE5"," ","c","U+00F4","n","g"," ","n","g","h","i","U+1EC7","p">>,
         SECTOR_INDUSTRIAL_GOODS>>,
       <<<<"N","h","U+1EF1","a"," ","&"," ","B","a","o"," ","b","U+00EC">>,
         SECTOR_CHEMICALS>>,
       <<<<"P","h","U+00E2","n"," ","b","U+00F3","n"," ","&"," ","H","U+00F3","a"," ","c","h","U+1EA5","t"," ","n","U+00F4","n","g"," ","n","g","h","i","U+1EC7","p">>,
         SECTOR_CHEMICALS>>,
       <<<<"D","U+01B0","U+1EE3","c"," ","p","h","U+1EA9","m">>,
         SECTOR_HEALTH_CARE>>,
       <<<<"T","h","i","U+1EBF","t"," ","b","U+1ECB"," ","y"," ","t","U+1EBF">>,
         SECTOR_HEALTH_CARE>>,
       <<<<"S","U+1EA3","n"," ","x","u","U+1EA5","t"," ","U+0111","i","U+1EC7","n">>,
         SECTOR_UTILITIES>>,
       <<<<"U+0110","i","U+1EC7","n">>,
         SECTOR_UTILITIES>>,
       <<<<"B","U+00E1","n"," ","l","U+1EBB"," ","t","h","U+1EF1","c"," ","p","h","U+1EA9","m">>,
         SECTOR_RETAIL>>,
       <<<<"B","U+00E1","n"," ","l","U+1EBB"," ","c","h","u","y","U+00EA","n"," ","b","i","U+1EC7","t">>,
         SECTOR_RETAIL>>,
       <<<<"P","h","U+1EA7","n"," ","m","U+1EC1","m">>,
         SECTOR_TECHNOLOGY>>,
       <<<<"D","U+1ECB","c","h"," ","v","U+1EE5"," ","C","N","T","T">>,
         SECTOR_TECHNOLOGY>>,
       <<<<"K","h","a","i"," ","t","h","U+00E1","c">>,
         SECTOR_BASIC_RESOURCES>>,
       <<<<"T","h","U+00E9","p">>,
         SECTOR_BASIC_RESOURCES>>,
       <<<<"K","i","m"," ","l","o","U+1EA1","i">>,
         SECTOR_BASIC_RESOURCES>>
    >>

SUBJECT_COMMERCIAL_BANKS == <<"N","g","U+00E2","n"," ","h","U+00E0","n","g"," ","t","h","U+01B0","U+01A1","n","g"," ","m","U+1EA1","i">>
SUBJECT_STEEL == <<"T","h","U+00E9","p">>
SUBJECT_REAL == <<"B","U+1EA5","t"," ","U+0111","U+1ED9","n","g">>
SUBJECT_OIL == <<"D","U+1EA7","u"," ","k","h","U+00ED">>
STORE_STEEL_METALS == <<"T","h","U+00E9","p"," ","v","U+00E0"," ","K","i","m"," ","l","o","U+1EA1","i">>

\* str.upper() on the letters a ticker can hold
UpperChar(c) ==
    IF \E k \in 1..26 : LOWER[k] = c
    THEN UPPER[CHOOSE k \in 1..26 : LOWER[k] = c]
    ELSE c

Upper(s) == [i \in 1..Len(s) |-> UpperChar(s[i])]

\* the market averages used when no sector median is at hand (lines 283-284,
\* 848 and 923)
MARKET_PE == R(15, 1)

MARKET_PB == R(3, 2)

\* current_sector in all_sectors; the store is the list of its (key, data)
\* entries in the order of the file
InStore(all_sectors, sector) ==
    \E i \in 1..Len(all_sectors) : all_sectors[i].key = sector

StoreEntry(all_sectors, sector) ==
    all_sectors[CHOOSE i \in 1..Len(all_sectors) : all_sectors[i].key = sector].data

\* sector_mapping.get(current_sector)
AliasOf(current_sector) ==
    LET hits == { i \in 1..Len(sector_mapping) : sector_mapping[i][1] = current_sector }
    IN  IF hits = {} THEN None ELSE sector_mapping[CHOOSE i \in hits : TRUE][2]

\* the loop of lines 242-246: the first key that contains the label or is
\* contained in it; matched_sector stays None when there is none
PartialMatch(current_sector, all_sectors) ==
    LET hits == { i \in 1..Len(all_sectors) :
                    \/ Contains(all_sectors[i].key, current_sector)
                    \/ Contains(current_sector, all_sectors[i].key) }
    IN  IF hits = {} THEN None
        ELSE all_sectors[CHOOSE i \in hits : \A k \in hits : i <= k].key

\* lines 234-246
MatchSector(current_sector, all_sectors) ==
    IF InStore(all_sectors, current_sector) THEN current_sector
    ELSE IF AliasOf(current_sector) # None THEN AliasOf(current_sector)
    ELSE PartialMatch(current_sector, all_sectors)

\* s[:n]
Take(s, n) == SubSeq(s, 1, Min(n, Len(s)))

\* lines 249-264: the result for a sector found in the store
SectorResult(sector_data, current_symbol, current_sector, num_peers) ==
    LET all_peers == Get(sector_data, "peers", <<>>)
        peers_full == Take(SelectSeq(all_peers,
                              LAMBDA p : Get(p, "symbol", None) # current_symbol), num_peers)
        peer_symbols == [i \in 1..Len(peers_full) |-> peers_full[i].symbol]
    IN  [median_pe |-> Get(sector_data, "median_pe", None),
         median_pb |-> Get(sector_data, "median_pb", None),
         peers |-> peer_symbols,
         peers_detail |-> peers_full,
         sector |-> current_sector,
         peer_count |-> Len(peer_symbols),
         total_in_sector |-> Get(sector_data, "total_in_sector", Len(all_peers))]

\* lines 282-289: the market defaults
DefaultPeers(current_sector) ==
    [median_pe |-> MARKET_PE,
     median_pb |-> MARKET_PB,
     peers |-> <<>>,
     sector |-> current_sector,
     peer_count |-> 0,
     error |-> "sector_peers.json not found"]

\* the result is returned and not stored
CachePeers_Unkept(self, result) ==
    [raised |-> FALSE, ret |-> result, self |-> self]

\* the result is stored and returned
CachePeers(self, result) ==
    [raised |-> FALSE, ret |-> result, self |-> [self EXCEPT !.sector_peers_cache = result]]

get_sector_peers(self, outside, num_peers) ==
    IF self.sector_peers_cache # None
    THEN [raised |-> FALSE, ret |-> self.sector_peers_cache, self |-> self]
    ELSE
    LET current_symbol == IF self.stock_symbol # <<>> THEN Upper(self.stock_symbol) ELSE None
    IN
    IF current_symbol = <<>>
    THEN [raised |-> FALSE,
          ret |-> [median_pe |-> None, median_pb |-> None, peers |-> <<>>,
                   error |-> "No symbol specified"],
          self |-> self]
    ELSE
    LET file_exists == current_symbol \in DOMAIN outside.stock_files
        read_stock == IF file_exists THEN [self EXCEPT !.fetches.stock_file = @ + 1] ELSE self
        current_sector == IF file_exists
                          THEN Get(outside.stock_files[current_symbol], "sector", None)
                          ELSE None
    IN
    IF current_sector = <<>>
    THEN [raised |-> FALSE,
          ret |-> [median_pe |-> None, median_pb |-> None, peers |-> <<>>,
                   error |-> "Could not determine sector"],
          self |-> read_stock]
    ELSE IF outside.sector_peers_file = None
    THEN CachePeers(read_stock, DefaultPeers(current_sector))
    ELSE
    LET read_store == [read_stock EXCEPT !.fetches.sector_peers_file = @ + 1]
        all_sectors == outside.sector_peers_file.all_sectors
        matched_sector == MatchSector(current_sector, all_sectors)
    IN
    IF outside.sector_peers_file.unreadable
    THEN [raised |-> TRUE, self |-> read_store]
    ELSE IF matched_sector # None /\ InStore(all_sectors, matched_sector)
    THEN CachePeers(read_store, SectorResult(StoreEntry(all_sectors, matched_sector),
                                             current_symbol, current_sector, num_peers))
    ELSE CachePeers(read_store, DefaultPeers(current_sector))

-----------------------------------------------------------------------------
(* The two cash-flow models.  A model returns [ret, self, locals]: what the *)
(* method returns, the instance as the call leaves it, and the local values *)
(* of the run that the result does not show.                                *)

ONE == RInt(1)

ZERO == RInt(0)

\* the defaults of the assumption set (lines 447-455 and 605-610)
DEFAULT_SHORT_TERM_GROWTH == R(5, 100)

DEFAULT_TERMINAL_GROWTH == R(2, 100)

DEFAULT_COST_OF_EQUITY == R(12, 100)

DEFAULT_WACC == R(10, 100)

DEFAULT_TAX_RATE == R(20, 100)

DEFAULT_FORECAST_YEARS == 5

\* the spread forced between the rate and the terminal growth (lines 515, 696)
MIN_SPREAD == R(2, 100)

\* [flow * ((1 + growth) ** year) for year in range(1, forecast_years + 1)]
Project(flow, growth, forecast_years) ==
    [year \in 1..forecast_years |-> RMul(flow, RPow(RAdd(ONE, growth), year))]

\* [v / ((1 + rate) ** year) for year, v in enumerate(flows, 1)]
Discount(flows, rate) ==
    [year \in 1..Len(flows) |-> RDiv(flows[year], RPow(RAdd(ONE, rate), year))]

\* a spread of one point only
adj_cost_of_equity_HalfSpread(cost_of_equity, terminal_growth) ==
    IF RLe(cost_of_equity, terminal_growth)
    THEN RMax(cost_of_equity, RAdd(terminal_growth, R(1, 100)))
    ELSE cost_of_equity

\* the rate of the terminal value's denominator in calculate_fcfe
adj_cost_of_equity(cost_of_equity, terminal_growth) ==
    IF RLe(cost_of_equity, terminal_growth)
    THEN RMax(cost_of_equity, RAdd(terminal_growth, MIN_SPREAD))
    ELSE cost_of_equity

\* the rate of the terminal value's denominator in calculate_fcff
adj_wacc(wacc, terminal_growth) ==
    IF RLe(wacc, terminal_growth)
    THEN RMax(wacc, RAdd(terminal_growth, MIN_SPREAD))
    ELSE wacc

\* the last flow is not grown
TerminalValue_NoGrowth(last_flow, terminal_growth, rate) ==
    RDiv(last_flow, RSub(rate, terminal_growth))

\* last_flow * (1 + terminal_growth) / (rate - terminal_growth)
TerminalValue(last_flow, terminal_growth, rate) ==
    RDiv(RMul(last_flow, RAdd(ONE, terminal_growth)), RSub(rate, terminal_growth))

\* the total itself when there are no shares
PerShare_Undivided(total, shares_outstanding) ==
    IF RPos(shares_outstanding) THEN RDiv(total, shares_outstanding) ELSE total

\* total / shares_outstanding if shares_outstanding > 0 else 0
PerShare(total, shares_outstanding) ==
    IF RPos(shares_outstanding) THEN RDiv(total, shares_outstanding) ELSE ZERO

\* the error record without a share value
ModelError_NoShareValue(self, e) ==
    [ret |-> [error |-> e], self |-> self, locals |-> None]

\* the except clause of a cash-flow model: {'shareValue': 0, 'error': str(e)}
ModelError(self, e) ==
    [ret |-> [shareValue |-> ZERO, error |-> e], self |-> self, locals |-> None]

\* the exception the projection and the discounting raise ("" when they raise
\* none): no projected flow to take the last of, or a division by
\* (1 + rate) ** year = 0
ProjectionError(forecast_years, rate) ==
    IF forecast_years < 1 THEN "list index out of range"
    ELSE IF RIsZero(RAdd(ONE, rate)) THEN "float division by zero"
    ELSE ""

\* lines 333 and 354: what check_data_frequency leaves in the table object
\* it is given; with the period pair it works on a copy of its own, with a
\* date column alone it assigns the parsed column in the object itself
LeftInArgument(data, expected_frequency) ==
    IF HasColumn(data, COL_yearReport) /\ HasColumn(data, COL_lengthReport) THEN data
    ELSE IF SelectSeq(data.columns, IsTimeCol) # <<>>
    THEN CoerceColumn(data, ColumnIndex(data, SelectSeq(data.columns, IsTimeCol)[1]))
    ELSE data

\* the cached table itself is handed to check_data_frequency
HandedCopy_Itself(self, cache, data_frequency) ==
    [self EXCEPT ![cache] =
        Put(@, data_frequency, LeftInArgument(@[data_frequency], data_frequency))]

\* lines 467-468, 626-628, 828 and 875: check_data_frequency is given a
\* copy of the cached table, which stays in the cache as it was fetched
HandedCopy(self, cache, data_frequency) == self

\* lines 469-485: the values the resolver finds in the two processed statements
FcfeFound(income_data, cash_flow_data, is_quarterly) ==
    [net_income |->
        RInt(find_financial_value(income_data, <<NET_PROFIT>>, is_quarterly)),
     non_cash_charges |->
        RInt(find_financial_value(cash_flow_data, <<DEPRECIATION>>, is_quarterly)),
     receivables_change |->
        RInt(find_financial_value(cash_flow_data, <<RECEIVABLES>>, is_quarterly)),
     inventories_change |->
        RInt(find_financial_value(cash_flow_data, <<INVENTORIES>>, is_quarterly)),
     payables_change |->
        RInt(find_financial_value(cash_flow_data, <<PAYABLES>>, is_quarterly)),
     fixed_capital_investment |->
        RInt(find_financial_value(cash_flow_data, <<PURCHASE_FIXED, DISPOSAL_FIXED>>,
                                  is_quarterly)),
     proceeds_borrowings |->
        RInt(find_financial_value(cash_flow_data, <<PROCEEDS_BORROWINGS>>, is_quarterly)),
     repayment_borrowings |->
        RInt(find_financial_value(cash_flow_data, <<REPAYMENT_BORROWINGS>>, is_quarterly))]

\* the repayments are left out of the net borrowing
FcfeOfFound_ProceedsOnly(self, v) ==
    LET working_capital_investment ==
            RSub(RAdd(v.receivables_change, v.inventories_change), v.payables_change)
        net_borrowing == v.proceeds_borrowings
    IN  [raised |-> FALSE, self |-> self,
         fcfe |-> RAdd(RSub(RAdd(RAdd(v.net_income, v.non_cash_charges), net_borrowing),
                            working_capital_investment),
                       v.fixed_capital_investment),
         net_borrowing |-> net_borrowing,
         inputs |-> [netIncome |-> v.net_income,
                     depreciation |-> v.non_cash_charges,
                     netBorrowing |-> net_borrowing,
                     workingCapitalInvestment |-> working_capital_investment,
                     fixedCapitalInvestment |-> v.fixed_capital_investment,
                     receivablesChange |-> v.receivables_change,
                     inventoriesChange |-> v.inventories_change,
                     payablesChange |-> v.payables_change,
                     proceedsBorrowings |-> v.proceeds_borrowings,
                     repaymentBorrowings |-> v.repayment_borrowings]]

\* lines 476-495: the base flow from the values found
FcfeOfFound(self, v) ==
    LET working_capital_investment ==
            RSub(RAdd(v.receivables_change, v.inventories_change), v.payables_change)
        net_borrowing == RAdd(v.proceeds_borrowings, v.repayment_borrowings)
    IN  [raised |-> FALSE, self |-> self,
         fcfe |-> RAdd(RSub(RAdd(RAdd(v.net_income, v.non_cash_charges), net_borrowing),
                            working_capital_investment),
                       v.fixed_capital_investment),
         net_borrowing |-> net_borrowing,
         inputs |-> [netIncome |-> v.net_income,
                     depreciation |-> v.non_cash_charges,
                     netBorrowing |-> net_borrowing,
                     workingCapitalInvestment |-> working_capital_investment,
                     fixedCapitalInvestment |-> v.fixed_capital_investment,
                     receivablesChange |-> v.receivables_change,
                     inventoriesChange |-> v.inventories_change,
                     payablesChange |-> v.payables_change,
                     proceedsBorrowings |-> v.proceeds_borrowings,
                     repaymentBorrowings |-> v.repayment_borrowings]]

\* lines 465-495, once both statements are normalised
FcfeOfProcessed(self, processed_income, processed_cash_flow) ==
    IF processed_income.raised \/ processed_cash_flow.raised
    THEN [raised |-> TRUE, self |-> self]
    ELSE FcfeOfFound(self, FcfeFound(processed_income.data, processed_cash_flow.data,
                                     processed_income.freq = "quarter"))

\* lines 463-495, once both statements are fetched
FcfeOfFetched(income, cash_flow, data_frequency) ==
    IF cash_flow.raised THEN [raised |-> TRUE, self |-> cash_flow.self]
    ELSE FcfeOfProcessed(HandedCopy(HandedCopy(cash_flow.self, "income_data_cache",
                                               data_frequency),
                                    "cash_flow_data_cache", data_frequency),
                         check_data_frequency(income.ret, data_frequency),
                         check_data_frequency(cash_flow.ret, data_frequency))

\* lines 462-495, once the income statement is fetched
FcfeOfIncome(income, outside, data_frequency) ==
    IF income.raised THEN [raised |-> TRUE, self |-> income.self]
    ELSE FcfeOfFetched(income,
                       get_cached_cash_flow_data(income.self, outside, data_frequency),
                       data_frequency)

\* lines 461-495: the components of the base flow read from the statements
FcfeFromStatements(self, outside, data_frequency) ==
    FcfeOfIncome(get_cached_income_data(self, outside, data_frequency), outside,
                 data_frequency)

\* lines 497-505: the components of the base flow taken from stock_data
FcfeFromStockData(self) ==
    LET net_income == Get(self.stock_data, "net_income_ttm", ZERO)
        depreciation == Get(self.stock_data, "depreciation", ZERO)
        capex == RAbs(Get(self.stock_data, "capex", ZERO))
        net_borrowing == Get(self.stock_data, "net_borrowing", ZERO)
        working_capital_change == Get(self.stock_data, "working_capital_change", ZERO)
    IN  [raised |-> FALSE, self |-> self,
         fcfe |-> RSub(RSub(RAdd(RAdd(net_income, depreciation), net_borrowing),
                            working_capital_change),
                       capex),
         net_borrowing |-> net_borrowing,
         inputs |-> [netIncome |-> net_income,
                     depreciation |-> depreciation,
                     netBorrowing |-> net_borrowing,
                     workingCapitalInvestment |-> working_capital_change,
                     fixedCapitalInvestment |-> RNeg(capex),
                     receivablesChange |-> ZERO,
                     inventoriesChange |-> ZERO,
                     payablesChange |-> ZERO,
                     proceedsBorrowings |-> ZERO,
                     repaymentBorrowings |-> ZERO]]

\* lines 507-543: the projection, the terminal value and the discounting of the
\* base flow
FcfeValuation(base, shares_outstanding, given) ==
    LET short_term_growth == Get(given, "short_term_growth",
                                 Get(given, "revenue_growth", DEFAULT_SHORT_TERM_GROWTH))
        terminal_growth == Get(given, "terminal_growth", DEFAULT_TERMINAL_GROWTH)
        cost_of_equity == Get(given, "cost_of_equity", DEFAULT_COST_OF_EQUITY)
        forecast_years == Get(given, "forecast_years", DEFAULT_FORECAST_YEARS)
        future_fcfes == Project(base.fcfe, short_term_growth, forecast_years)
        rate == adj_cost_of_equity(cost_of_equity, terminal_growth)
        terminal_value == TerminalValue(future_fcfes[forecast_years], terminal_growth, rate)
        pv_fcfes == Discount(future_fcfes, cost_of_equity)
        pv_terminal == RDiv(terminal_value, RPow(RAdd(ONE, cost_of_equity), forecast_years))
        total_equity_value == RAdd(RSum(pv_fcfes), pv_terminal)
    IN  IF base.raised THEN ModelError(base.self, "statement")
        ELSE IF ProjectionError(forecast_years, cost_of_equity) # ""
        THEN ModelError(base.self, ProjectionError(forecast_years, cost_of_equity))
        ELSE [ret |-> [shareValue |-> PerShare(total_equity_value, shares_outstanding),
                       baseFCFE |-> base.fcfe,
                       projectedCashFlows |-> future_fcfes,
                       presentValues |-> pv_fcfes,
                       terminalValue |-> terminal_value,
                       pvTerminal |-> pv_terminal,
                       totalEquityValue |-> total_equity_value,
                       sharesOutstanding |-> shares_outstanding,
                       inputs |-> base.inputs,
                       assumptions |-> [costOfEquity |-> cost_of_equity,
                                        shortTermGrowth |-> short_term_growth,
                                        terminalGrowth |-> terminal_growth,
                                        forecastYears |-> forecast_years]],
              self |-> base.self,
              locals |-> [raw |-> cost_of_equity,
                          rate |-> rate,
                          terminal_growth |-> terminal_growth,
                          denominator |-> RSub(rate, terminal_growth)]]

\* lines 459-543, once the shares are known
FcfeOfShares(shares, outside, given) ==
    FcfeValuation(IF HasStock(shares.self)
                  THEN FcfeFromStatements(shares.self, outside,
                                          Get(given, "data_frequency", "year"))
                  ELSE FcfeFromStockData(shares.self),
                  shares.ret, given)

calculate_fcfe(self, outside, given) ==
    FcfeOfShares(get_shares_outstanding(self, outside), outside, given)

\* lines 626-664: the values the resolver finds in the three processed
\* statements; the balance-sheet items are never summed over quarters
FcffFound(income_data, cash_flow_data, balance_data, is_quarterly) ==
    [net_income |->
        RInt(find_financial_value(income_data, <<NET_PROFIT>>, is_quarterly)),
     non_cash_charges |->
        RInt(find_financial_value(cash_flow_data, <<DEPRECIATION>>, is_quarterly)),
     interest_expense |->
        RInt(find_financial_value(income_data, <<INTEREST_EXPENSES>>, is_quarterly)),
     receivables_change |->
        RInt(find_financial_value(cash_flow_data, <<RECEIVABLES>>, is_quarterly)),
     inventories_change |->
        RInt(find_financial_value(cash_flow_data, <<INVENTORIES>>, is_quarterly)),
     payables_change |->
        RInt(find_financial_value(cash_flow_data, <<PAYABLES>>, is_quarterly)),
     fixed_capital_investment |->
        RInt(find_financial_value(cash_flow_data, <<PURCHASE_FIXED, DISPOSAL_FIXED>>,
                                  is_quarterly)),
     short_term_debt |->
        RInt(find_financial_value(balance_data,
                                  <<ST_BORROWINGS, ST_BORROWINGS_VI, ST_DEBT, ST_VAY,
                                    ST_VAY_LONG, ST_BORROWINGS_LEASE>>, FALSE)),
     long_term_debt |->
        RInt(find_financial_value(balance_data,
                                  <<LT_BORROWINGS, LT_BORROWINGS_VI, LT_DEBT, LT_VAY,
                                    LT_VAY_LONG, LT_BORROWINGS_LEASE>>, FALSE)),
     cash |->
        RInt(find_financial_value(balance_data, <<CASH_EQ, CASH_EQ_VI, CASH, CASH_VI>>,
                                  FALSE))]

\* lines 633-675: the base flow from the values found
FcffOfFound(self, v, tax_rate) ==
    LET interest_after_tax == RMul(RAbs(v.interest_expense), RSub(ONE, tax_rate))
        working_capital_investment ==
            RSub(RAdd(v.receivables_change, v.inventories_change), v.payables_change)
    IN  [raised |-> FALSE, self |-> self,
         fcff |-> RAdd(RSub(RAdd(RAdd(v.net_income, v.non_cash_charges), interest_after_tax),
                            working_capital_investment),
                       v.fixed_capital_investment),
         total_debt |-> RAdd(v.short_term_debt, v.long_term_debt),
         cash |-> v.cash,
         inputs |-> [netIncome |-> v.net_income,
                     depreciation |-> v.non_cash_charges,
                     interestExpense |-> v.interest_expense,
                     interestAfterTax |-> interest_after_tax,
                     workingCapitalInvestment |-> working_capital_investment,
                     fixedCapitalInvestment |-> v.fixed_capital_investment,
                     receivablesChange |-> v.receivables_change,
                     inventoriesChange |-> v.inventories_change,
                     payablesChange |-> v.payables_change,
                     shortTermDebt |-> v.short_term_debt,
                     longTermDebt |-> v.long_term_debt]]

\* lines 623-675, once the three statements are normalised
FcffOfProcessed(self, processed_income, processed_cash_flow, processed_balance, tax_rate) ==
    IF \/ processed_income.raised
       \/ processed_cash_flow.raised
       \/ processed_balance.raised
    THEN [raised |-> TRUE, self |-> self]
    ELSE FcffOfFound(self,
                     FcffFound(processed_income.data, processed_cash_flow.data,
                               processed_balance.data, processed_income.freq = "quarter"),
                     tax_rate)

\* lines 622-675, once the three statements are fetched
FcffOfFetched(income, cash_flow, balance, data_frequency, tax_rate) ==
    IF balance.raised THEN [raised |-> TRUE, self |-> balance.self]
    ELSE FcffOfProcessed(HandedCopy(HandedCopy(HandedCopy(balance.self,
                                                          "income_data_cache",
                                                          data_frequency),
                                               "cash_flow_data_cache", data_frequency),
                                    "balance_data_cache", data_frequency),
                         check_data_frequency(income.ret, data_frequency),
                         check_data_frequency(cash_flow.ret, data_frequency),
                         check_data_frequency(balance.ret, data_frequency),
                         tax_rate)

\* lines 621-675, once the income and the cash-flow statement are fetched
FcffOfCashFlow(income, cash_flow, outside, data_frequency, tax_rate) ==
    IF cash_flow.raised THEN [raised |-> TRUE, self |-> cash_flow.self]
    ELSE FcffOfFetched(income, cash_flow,
                       get_cached_balance_data(cash_flow.self, outside, data_frequency),
                       data_frequency, tax_rate)

\* lines 620-675, once the income statement is fetched
FcffOfIncome(income, outside, data_frequency, tax_rate) ==
    IF income.raised THEN [raised |-> TRUE, self |-> income.self]
    ELSE FcffOfCashFlow(income,
                        get_cached_cash_flow_data(income.self, outside, data_frequency),
                        outside, data_frequency, tax_rate)

\* lines 619-675: the components read from the three statements
FcffFromStatements(self, outside, data_frequency, tax_rate) ==
    FcffOfIncome(get_cached_income_data(self, outside, data_frequency), outside,
                 data_frequency, tax_rate)

\* lines 677-689: the components taken from stock_data
FcffFromStockData(self, tax_rate) ==
    LET net_income == Get(self.stock_data, "net_income_ttm", ZERO)
        depreciation == Get(self.stock_data, "depreciation", ZERO)
        interest_expense == Get(self.stock_data, "interest_expense", ZERO)
        interest_after_tax == RMul(interest_expense, RSub(ONE, tax_rate))
        capex == RAbs(Get(self.stock_data, "capex", ZERO))
        working_capital_change == Get(self.stock_data, "working_capital_change", ZERO)
    IN  [raised |-> FALSE, self |-> self,
         fcff |-> RSub(RSub(RAdd(RAdd(net_income, depreciation), interest_after_tax),
                            working_capital_change),
                       capex),
         total_debt |-> Get(self.stock_data, "total_debt", ZERO),
         cash |-> Get(self.stock_data, "cash", ZERO),
         inputs |-> [netIncome |-> net_income,
                     depreciation |-> depreciation,
                     interestExpense |-> interest_expense,
                     interestAfterTax |-> interest_after_tax,
                     workingCapitalInvestment |-> working_capital_change,
                     fixedCapitalInvestment |-> RNeg(capex),
                     receivablesChange |-> ZERO,
                     inventoriesChange |-> ZERO,
                     payablesChange |-> ZERO,
                     shortTermDebt |-> ZERO,
                     longTermDebt |-> ZERO]]

\* a wacc that is no number (None) makes the comparison of line 695 raise
IsRate(x) == x # None

\* lines 691-727: the projection, the terminal value, the discounting and the
\* bridge from enterprise value to equity value
FcffValuation(base, shares_outstanding, given) ==
    LET short_term_growth == Get(given, "short_term_growth", DEFAULT_SHORT_TERM_GROWTH)
        terminal_growth == Get(given, "terminal_growth", DEFAULT_TERMINAL_GROWTH)
        wacc == Get(given, "wacc", DEFAULT_WACC)
        forecast_years == Get(given, "forecast_years", DEFAULT_FORECAST_YEARS)
        future_fcffs == Project(base.fcff, short_term_growth, forecast_years)
        rate == adj_wacc(wacc, terminal_growth)
        terminal_value_fcff ==
            TerminalValue(future_fcffs[forecast_years], terminal_growth, rate)
        pv_fcffs == Discount(future_fcffs, wacc)
        pv_terminal_fcff ==
            RDiv(terminal_value_fcff, RPow(RAdd(ONE, wacc), forecast_years))
        enterprise_value == RAdd(RSum(pv_fcffs), pv_terminal_fcff)
        equity_value == RAdd(RSub(enterprise_value, base.total_debt), base.cash)
    IN  IF base.raised THEN ModelError(base.self, "statement")
        ELSE IF ~IsRate(wacc)
        THEN ModelError(base.self, "unsupported operand")
        ELSE IF ProjectionError(forecast_years, wacc) # ""
        THEN ModelError(base.self, ProjectionError(forecast_years, wacc))
        ELSE [ret |-> [shareValue |-> PerShare(equity_value, shares_outstanding),
                       baseFCFF |-> base.fcff,
                       projectedCashFlows |-> future_fcffs,
                       presentValues |-> pv_fcffs,
                       terminalValue |-> terminal_value_fcff,
                       pvTerminal |-> pv_terminal_fcff,
                       enterpriseValue |-> enterprise_value,
                       totalDebt |-> base.total_debt,
                       cash |-> base.cash,
                       equityValue |-> equity_value,
                       sharesOutstanding |-> shares_outstanding,
                       inputs |-> base.inputs,
                       assumptions |-> [wacc |-> wacc,
                                        shortTermGrowth |-> short_term_growth,
                                        terminalGrowth |-> terminal_growth,
                                        forecastYears |-> forecast_years,
                                        taxRate |-> Get(given, "tax_rate",
                                                        DEFAULT_TAX_RATE)]],
              self |-> base.self,
              locals |-> [raw |-> wacc,
                          rate |-> rate,
                          terminal_growth |-> terminal_growth,
                          denominator |-> RSub(rate, terminal_growth)]]

\* lines 614-727, once the shares are known
FcffOfShares(shares, outside, given) ==
    FcffValuation(IF HasStock(shares.self)
                  THEN FcffFromStatements(shares.self, outside,
                                          Get(given, "data_frequency", "year"),
                                          Get(given, "tax_rate", DEFAULT_TAX_RATE))
                  ELSE FcffFromStockData(shares.self,
                                         Get(given, "tax_rate", DEFAULT_TAX_RATE)),
                  shares.ret, given)

calculate_fcff(self, outside, given) ==
    FcffOfShares(get_shares_outstanding(self, outside), outside, given)

-----------------------------------------------------------------------------
(* The two comparable-multiple models.  They return a bare number.          *)

\* num_peers of the calls at lines 139, 842 and 917
NUM_PEERS == 10

\* x or y on numbers: x when x is not 0
Or(x, y) == IF ~RIsZero(x) THEN x ELSE y

\* the market average only for a median that is None
Multiple_NullOnly(median, market) ==
    IF median = None THEN market ELSE median

\* the multiple used: the sector median, or the market average when the
\* median is None or not positive (lines 845-848 and 920-923)
Multiple(median, market) ==
    IF median = None \/ RLe(median, ZERO) THEN market ELSE median

\* lines 848-855, once the peers are looked up
PeOfPeers(peer_data, current_eps) ==
    IF peer_data.raised THEN [ret |-> ZERO, self |-> peer_data.self]
    ELSE [ret |-> RMul(Multiple(Get(peer_data.ret, "median_pe", None), MARKET_PE),
                       current_eps),
          self |-> peer_data.self]

\* the multiple is applied whatever the sign of the earnings per share
PeOfEps_Unchecked(eps, outside) ==
    IF eps.raised THEN [ret |-> ZERO, self |-> eps.self]
    ELSE PeOfPeers(get_sector_peers(eps.self, outside, NUM_PEERS), eps.current_eps)

\* lines 837-855, once the earnings per share are known
PeOfEps(eps, outside) ==
    IF eps.raised THEN [ret |-> ZERO, self |-> eps.self]
    ELSE IF RLe(eps.current_eps, ZERO) THEN [ret |-> ZERO, self |-> eps.self]
    ELSE PeOfPeers(get_sector_peers(eps.self, outside, NUM_PEERS), eps.current_eps)

\* lines 828-832, once the income statement is normalised
EpsOfProcessed(self, processed_income, shares_outstanding) ==
    IF processed_income.raised THEN [raised |-> TRUE, self |-> self]
    ELSE [raised |-> FALSE, self |-> self,
          current_eps |->
             PerShare(RInt(find_financial_value(processed_income.data, <<NET_PROFIT>>,
                                                processed_income.freq = "quarter")),
                      shares_outstanding)]

\* lines 827-832, once the income statement is fetched
EpsOfIncome(income, data_frequency, shares_outstanding) ==
    IF income.raised THEN [raised |-> TRUE, self |-> income.self]
    ELSE EpsOfProcessed(HandedCopy(income.self, "income_data_cache", data_frequency),
                        check_data_frequency(income.ret, data_frequency),
                        shares_outstanding)

\* lines 826-835: the current earnings per share
CurrentEps(self, outside, data_frequency, shares_outstanding) ==
    IF HasStock(self)
    THEN EpsOfIncome(get_cached_income_data(self, outside, data_frequency),
                     data_frequency, shares_outstanding)
    ELSE [raised |-> FALSE, self |-> self,
          current_eps |-> Or(Get(self.stock_data, "eps", ZERO),
                             PerShare(Get(self.stock_data, "net_income_ttm", ZERO),
                                      shares_outstanding))]

\* lines 825-855, once the shares are known
PeOfShares(shares, outside, given) ==
    PeOfEps(CurrentEps(shares.self, outside, Get(given, "data_frequency", "year"),
                       shares.ret),
            outside)

calculate_justified_pe(self, outside, given) ==
    PeOfShares(get_shares_outstanding(self, outside), outside, given)

\* the loop of lines 884-896 from column j on: the first value of a column
\* whose label contains an equity name; the scan stops once the value is > 0
RECURSIVE ScanEquityColumns(_, _, _)
ScanEquityColumns(data, j, total_equity) ==
    IF j > Len(data.columns) THEN total_equity
    ELSE LET valid_values == DropNa(ColumnValues(data, j))
             found == IF NameInfo[data.columns[j]].equity /\ valid_values # <<>>
                      THEN RInt(valid_values[1][1])
                      ELSE total_equity
         IN  IF RPos(found) THEN found ELSE ScanEquityColumns(data, j + 1, found)

\* the equity line item alone
TotalEquity_LineOnly(processed_balance) == ScanEquityColumns(processed_balance, 1, ZERO)

\* lines 884-903: total equity from the balance sheet
TotalEquity(processed_balance) ==
    LET total_equity == ScanEquityColumns(processed_balance, 1, ZERO)
        total_assets == RInt(find_financial_value(processed_balance,
                                                  <<TOTAL_ASSETS, TOTAL_ASSETS_UP>>, FALSE))
        total_liabilities ==
            RInt(find_financial_value(processed_balance,
                                      <<TOTAL_LIABILITIES, TOTAL_LIABILITIES_UP>>, FALSE))
    IN  IF ~RIsZero(total_equity) THEN total_equity
        ELSE IF RPos(total_assets) THEN RSub(total_assets, total_liabilities)
        ELSE total_equity

\* lines 923-930, once the peers are looked up
PbOfPeers(peer_data, bvps) ==
    IF peer_data.raised THEN [ret |-> ZERO, self |-> peer_data.self]
    ELSE [ret |-> RMul(Multiple(Get(peer_data.ret, "median_pb", None), MARKET_PB), bvps),
          self |-> peer_data.self]

\* lines 912-930, once the book value per share is known
PbOfBook(book, outside) ==
    IF book.raised THEN [ret |-> ZERO, self |-> book.self]
    ELSE IF RLe(book.bvps, ZERO) THEN [ret |-> ZERO, self |-> book.self]
    ELSE PbOfPeers(get_sector_peers(book.self, outside, NUM_PEERS), book.bvps)

\* lines 875-905, once the balance sheet is normalised
BookOfProcessed(self, processed_balance, shares_outstanding) ==
    IF processed_balance.raised THEN [raised |-> TRUE, self |-> self]
    ELSE [raised |-> FALSE, self |-> self,
          bvps |-> PerShare(TotalEquity(processed_balance.data), shares_outstanding)]

\* lines 874-905, once the balance sheet is fetched
BookOfBalance(balance_sheet, data_frequency, shares_outstanding) ==
    IF balance_sheet.raised THEN [raised |-> TRUE, self |-> balance_sheet.self]
    ELSE BookOfProcessed(HandedCopy(balance_sheet.self, "balance_data_cache",
                                    data_frequency),
                         check_data_frequency(balance_sheet.ret, data_frequency),
                         shares_outstanding)

\* lines 906-910: the book value per share from stock_data
SuppliedBook(stock_data, shares_outstanding) ==
    LET bvps == Or(Get(stock_data, "bvps", ZERO),
                   Get(stock_data, "book_value_per_share", ZERO))
    IN  IF RIsZero(bvps)
        THEN PerShare(Get(stock_data, "total_equity", ZERO), shares_outstanding)
        ELSE bvps

\* lines 873-910: the book value per share
BookValuePerShare(self, outside, data_frequency, shares_outstanding) ==
    IF HasStock(self)
    THEN BookOfBalance(get_cached_balance_data(self, outside, data_frequency),
                       data_frequency, shares_outstanding)
    ELSE [raised |-> FALSE, self |-> self,
          bvps |-> SuppliedBook(self.stock_data, shares_outstanding)]

\* lines 872-930, once the shares are known
PbOfShares(shares, outside, given) ==
    PbOfBook(BookValuePerShare(shares.self, outside, Get(given, "data_frequency", "year"),
                               shares.ret),
             outside)

calculate_justified_pb(self, outside, given) ==
    PbOfShares(get_shares_outstanding(self, outside), outside, given)

-----------------------------------------------------------------------------
(* calculate_all_models: the four models, their aggregate, the sensitivity  *)
(* grid and the sector peers.                                               *)

\* the keys of results when the aggregate is computed, in insertion order
ResultKeys == <<"fcfe", "fcff", "justified_pe", "justified_pb", "weighted_average", "summary">>

\* the default model_weights (lines 65-67)
DEFAULT_MODEL_WEIGHTS ==
    [fcfe |-> R(25, 100), fcff |-> R(25, 100),
     justified_pe |-> R(25, 100), justified_pb |-> R(25, 100)]

\* isinstance(res, dict) for the entry of results under key k: the cash-flow
\* models return records, summary is a dict, the other entries are numbers
IsDict(k) == k \in {"fcfe", "fcff", "summary"}

\* lines 70-76
get_model_value(k, res) == IF IsDict(k) THEN Get(res, "shareValue", ZERO) ELSE res

\* any value but 0 counts
IsValid_NonZero(val) == ~RIsZero(val)

\* line 82: whether a value counts as valid
IsValid(val) == RPos(val)

\* lines 78-83: the keys of valid_models in insertion order
ValidKeys(results, model_weights) ==
    SelectSeq(ResultKeys,
              LAMBDA k : k \in DOMAIN model_weights
                         /\ IsValid(get_model_value(k, results[k])))

\* the sum of the products that is not divided by the total weight
WeightedAverage_Unnormalised(values, weights) ==
    RSum([i \in 1..Len(values) |-> RMul(values[i], weights[i])])

\* lines 88-90: sum(valid_models[k] * model_weights[k]) / total_weight
WeightedAverage(values, weights) ==
    RDiv(RSum([i \in 1..Len(values) |-> RMul(values[i], weights[i])]), RSum(weights))

\* total_models counts the values that went into the statistics
Summary_CountsValues(values) ==
    [average |-> RDiv(RSum(values), RInt(Len(values))),
     min |-> RMinSeq(values),
     max |-> RMaxSeq(values),
     models_used |-> Len(values),
     total_models |-> Len(values)]

\* lines 93-100
Summary(values) ==
    [average |-> RDiv(RSum(values), RInt(Len(values))),
     min |-> RMinSeq(values),
     max |-> RMaxSeq(values),
     models_used |-> Len(values),
     total_models |-> 4]

\* line 86: sum(...) raises a TypeError when the weight of a valid model is
\* not a number
WeightsAddUp(keys, model_weights) ==
    \A i \in 1..Len(keys) : IsNum(model_weights[keys[i]])

\* lines 85-100 for the valid keys: weighted_average and summary
AggregateOf(keys, results, model_weights) ==
    IF ~WeightsAddUp(keys, model_weights) THEN [raised |-> TRUE]
    ELSE IF keys # <<>> /\ RPos(RSum([i \in 1..Len(keys) |-> model_weights[keys[i]]]))
    THEN [raised |-> FALSE,
          weighted_average |->
             WeightedAverage([i \in 1..Len(keys) |->
                                get_model_value(keys[i], results[keys[i]])],
                             [i \in 1..Len(keys) |-> model_weights[keys[i]]]),
          summary |-> Summary([i \in 1..Len(keys) |->
                                 get_model_value(keys[i], results[keys[i]])])]
    ELSE [raised |-> FALSE, weighted_average |-> ZERO, summary |-> <<>>]

\* lines 78-100
Aggregate(results, model_weights) ==
    AggregateOf(ValidKeys(results, model_weights), results, model_weights)

\* lines 108-109: the five rates around a base rate
GridOffsets == <<R(-1, 100), R(-5, 1000), ZERO, R(5, 1000), R(1, 100)>>

GridRange(base) == [i \in 1..Len(GridOffsets) |-> RAdd(base, GridOffsets[i])]

\* the percentage as it is
GridHeader_Unrounded(x) == RMul(x, RInt(100))

\* lines 112-113: float(round(x * 100, 1))
GridHeader(x) == Round1(RMul(x, RInt(100)))

\* the two rates are assigned in the caller's dict itself
TempAssumptions_InPlace(given, w, g) ==
    [temp |-> Put(Put(given, "wacc", w), "terminal_growth", g),
     given |-> Put(Put(given, "wacc", w), "terminal_growth", g)]

\* lines 121-123: the two rates are assigned in a copy of the caller's dict;
\* temp is the copy, given the caller's dict as the assignments leave it
TempAssumptions(given, w, g) ==
    [temp |-> Put(Put(given, "wacc", w), "terminal_growth", g),
     given |-> given]

\* lines 125-128: the cell of one run, added to the runs made so far
GridCell(acc, made, val_result) ==
    [self |-> val_result.self,
     cells |-> Append(acc.cells, RTrunc(get_model_value("fcff", val_result.ret))),
     locals |-> Append(acc.locals, val_result.locals),
     given |-> made.given]

\* lines 120-128: one run of the grid on the assumptions made for it
GridRun(acc, outside, made) ==
    GridCell(acc, made, calculate_fcff(acc.self, outside, made.temp))

\* the runs of lines 117-129 that are still to be made; acc gathers the
\* instance, the cells filled so far, row by row, the runs' local values
\* and the caller's dict
RECURSIVE GridRuns(_, _, _, _)
GridRuns(outside, wacc_range, growth_range, acc) ==
    IF Len(acc.cells) >= Len(wacc_range) * Len(growth_range) THEN acc
    ELSE GridRuns(outside, wacc_range, growth_range,
                  GridRun(acc, outside,
                          TempAssumptions(
                              acc.given,
                              wacc_range[(Len(acc.cells) \div Len(growth_range)) + 1],
                              growth_range[(Len(acc.cells) % Len(growth_range)) + 1])))

\* lines 111-131: the matrix of the runs made
GridOf(wacc_range, growth_range, runs) ==
    [ret |-> [row_headers |-> [i \in 1..Len(wacc_range) |-> GridHeader(wacc_range[i])],
              col_headers |-> [j \in 1..Len(growth_range) |-> GridHeader(growth_range[j])],
              values |-> [i \in 1..Len(wacc_range) |->
                            SubSeq(runs.cells, (i - 1) * Len(growth_range) + 1,
                                   i * Len(growth_range))]],
     self |-> runs.self,
     locals |-> runs.locals,
     given |-> runs.given]

\* lines 102-135: the grid, or None when building it raises
SensitivityAnalysis(self, outside, given) ==
    IF ~IsRate(Get(given, "wacc", DEFAULT_WACC))
    THEN [ret |-> None, self |-> self, locals |-> <<>>, given |-> given]
    ELSE GridOf(GridRange(Get(given, "wacc", DEFAULT_WACC)),
                GridRange(Get(given, "terminal_growth", DEFAULT_TERMINAL_GROWTH)),
                GridRuns(outside,
                         GridRange(Get(given, "wacc", DEFAULT_WACC)),
                         GridRange(Get(given, "terminal_growth", DEFAULT_TERMINAL_GROWTH)),
                         [self |-> self, cells |-> <<>>, locals |-> <<>>,
                          given |-> given]))

\* results[key] = result.ret on the instance the call left: done holds the
\* instance, the results so far, the local values of the cash-flow runs and
\* the caller's assumption dict
Ran(done, key, result) ==
    [self |-> result.self,
     ret |-> Put(done.ret, key, result.ret),
     locals |-> IF "locals" \in DOMAIN result
                THEN Put(done.locals, key, result.locals)
                ELSE done.locals,
     given |-> IF "given" \in DOMAIN result THEN result.given ELSE done.given]

\* lines 33-38
RunFcfe(done, outside, given) ==
    Ran(done, "fcfe", calculate_fcfe(done.self, outside, given))

\* lines 40-45
RunFcff(done, outside, given) ==
    Ran(done, "fcff", calculate_fcff(done.self, outside, given))

\* lines 47-52
RunJustifiedPe(done, outside, given) ==
    Ran(done, "justified_pe", calculate_justified_pe(done.self, outside, given))

\* lines 54-59
RunJustifiedPb(done, outside, given) ==
    Ran(done, "justified_pb", calculate_justified_pb(done.self, outside, given))

\* lines 61-62
InitAggregate(results) == Put(Put(results, "weighted_average", ZERO), "summary", <<>>)

\* lines 88 and 94: the two entries are overwritten; an exception of the
\* aggregation is caught nowhere and leaves calculate_all_models
StoreAggregate(done, aggregate) ==
    IF aggregate.raised
    THEN [raised |-> TRUE, self |-> done.self, ret |-> None, locals |-> done.locals,
          given |-> done.given]
    ELSE [raised |-> FALSE, self |-> done.self,
          ret |-> Put(Put(done.ret, "weighted_average", aggregate.weighted_average),
                      "summary", aggregate.summary),
          locals |-> done.locals,
          given |-> done.given]

\* lines 61-100
RunAggregate(done, given) ==
    StoreAggregate(done, Aggregate(InitAggregate(done.ret),
                                   Get(given, "model_weights", DEFAULT_MODEL_WEIGHTS)))

\* lines 102-135
RunSensitivity(done, outside, given) ==
    Ran(done, "sensitivity_analysis", SensitivityAnalysis(done.self, outside, given))

\* lines 140-142: a lookup that raises leaves None
PeersOrNone(peer_data) ==
    [self |-> peer_data.self, ret |-> IF peer_data.raised THEN None ELSE peer_data.ret]

\* lines 137-142
RunSectorPeers(done, outside) ==
    Ran(done, "sector_peers", PeersOrNone(get_sector_peers(done.self, outside, NUM_PEERS)))

\* line 144: the results are returned
Returned(done) ==
    [raised |-> FALSE, self |-> done.self, ret |-> done.ret, locals |-> done.locals,
     given |-> done.given]

\* lines 102-144, which are reached when the aggregation raised nothing
AfterAggregate(done, outside, given) ==
    IF done.raised THEN done
    ELSE Returned(RunSectorPeers(RunSensitivity(done, outside, given), outside))

\* the error is returned whenever no figures are supplied
calculate_all_models_DataOnly(self, outside, given) ==
    IF self.stock_data = <<>>
    THEN [raised |-> FALSE, ret |-> [error |-> "No stock data or symbol available"],
          self |-> self, locals |-> None, given |-> given]
    ELSE AfterAggregate(
           RunAggregate(
             RunJustifiedPb(
               RunJustifiedPe(
                 RunFcff(
                   RunFcfe([self |-> self, ret |-> <<>>, locals |-> <<>>,
                            given |-> given],
                           outside, given),
                   outside, given),
                 outside, given),
               outside, given),
             given),
           outside, given)

calculate_all_models(self, outside, given) ==
    IF self.stock_symbol = <<>> /\ self.stock_data = <<>>
    THEN [raised |-> FALSE, ret |-> [error |-> "No stock data or symbol available"],
          self |-> self, locals |-> None, given |-> given]
    ELSE AfterAggregate(
           RunAggregate(
             RunJustifiedPb(
               RunJustifiedPe(
                 RunFcff(
                   RunFcfe([self |-> self, ret |-> <<>>, locals |-> <<>>,
                            given |-> given],
                           outside, given),
                   outside, given),
                 outside, given),
               outside, given),
             given),
           outside, given)

-----------------------------------------------------------------------------
(* The session specification: a session is constructed over one of the      *)
(* scenarios below and its methods are called in any order.                 *)

MaxFetches == 2

\* the supplied figures, in units of 10^8 VND
Figures ==
    [net_income_ttm |-> RInt(12), depreciation |-> RInt(2), capex |-> RInt(-3),
     net_borrowing |-> RInt(1), working_capital_change |-> RInt(1),
     interest_expense |-> RInt(5), total_debt |-> RInt(20), cash |-> RInt(8),
     total_equity |-> RInt(60)]

\* d with the entries of e added or replaced
With(d, e) == [k \in DOMAIN d \cup DOMAIN e |-> IF k \in DOMAIN e THEN e[k] ELSE d[k]]

StockDataChoices ==
    { <<>>,
      Figures,
      With(Figures, [shares_outstanding |-> RInt(20)]),
      With(Figures, [shares_outstanding |-> RInt(0)]),
      With(Figures, [shares_outstanding |-> RInt(0), eps |-> RInt(2000), bvps |-> RInt(9000)]),
      With(Figures, [shares_outstanding |-> RInt(0), eps |-> RInt(0),
                     book_value_per_share |-> RInt(9000)]),
      With(Figures, [shares_outstanding |-> RInt(0), eps |-> RInt(-5), bvps |-> RInt(-1),
                     book_value_per_share |-> RInt(9000)]),
      With(Figures, [shares_outstanding |-> RInt(20), net_income_ttm |-> RInt(-30)]),
      With(Figures, [shares_outstanding |-> RInt(20), interest_expense |-> RInt(-5)]),
      [eps |-> RInt(2000)] }

OneYear == [forecast_years |-> 1]

AssumptionChoices ==
    { OneYear,
      [forecast_years |-> 2, short_term_growth |-> R(50, 100), terminal_growth |-> R(5, 100),
       cost_of_equity |-> R(25, 100), wacc |-> R(25, 100)],
      [forecast_years |-> 1, short_term_growth |-> R(10, 100), terminal_growth |-> R(3, 100),
       cost_of_equity |-> R(2, 100), wacc |-> R(3, 100)],
      [forecast_years |-> 0],
      [forecast_years |-> 1, terminal_growth |-> R(325, 10000), wacc |-> R(1225, 10000),
       cost_of_equity |-> R(325, 10000)],
      [forecast_years |-> 1, cost_of_equity |-> RInt(-1), wacc |-> RInt(-1)],
      [forecast_years |-> 1, wacc |-> None],
      [forecast_years |-> 1, revenue_growth |-> R(8, 100), data_frequency |-> "quarter"],
      With(OneYear, [model_weights |-> [fcfe |-> ZERO, fcff |-> ZERO,
                                        justified_pe |-> ZERO, justified_pb |-> ZERO]]),
      With(OneYear, [model_weights |-> [dcf |-> R(50, 100), fcfe |-> R(50, 100)]]),
      With(OneYear, [model_weights |-> [fcfe |-> R(50, 100), justified_pb |-> None]]),
      With(OneYear, [model_weights |-> [fcfe |-> ZERO, fcff |-> RInt(1),
                                        justified_pe |-> ZERO, justified_pb |-> RInt(3)]]) }

\* the tickers
VCB == <<"V", "C", "B">>

BID == <<"B", "I", "D">>

CTG == <<"C", "T", "G">>

\* a table of the two annual reports 2023 and 2024, oldest first; figures(i)
\* gives the cells of report i after the two period cells
Reports(labels, figures) ==
    [columns |-> <<COL_yearReport, COL_lengthReport>> \o labels,
     rows |-> [i \in 1..2 |-> <<Num(2022 + i), Num(4)>> \o
                              [j \in 1..Len(labels) |-> Num(figures[i][j])]]]

IncomeStatement ==
    Reports(<<NET_PROFIT, INTEREST_EXPENSES>>, << <<10, -4>>, <<12, -5>> >>)

CashFlow ==
    Reports(<<DEPRECIATION, RECEIVABLES, INVENTORIES, PAYABLES, PURCHASE_FIXED,
              DISPOSAL_FIXED, PROCEEDS_BORROWINGS, REPAYMENT_BORROWINGS>>,
            << <<1, 1, 1, 1, -2, 1, 3, -1>>, <<2, 2, 1, 2, -4, 1, 4, -3>> >>)

BalanceSheet ==
    Reports(<<ST_BORROWINGS, LT_BORROWINGS, CASH_EQ, OWNERS_EQUITY_BN, TOTAL_ASSETS_BN,
              LIABILITIES_BN>>,
            << <<5, 10, 6, 50, 90, 40>>, <<8, 12, 8, 60, 100, 40>> >>)

\* an income statement with a date column in place of the period pair, one
\* of its dates not a date
DatedIncomeStatement ==
    [columns |-> <<COL_date, NET_PROFIT, INTEREST_EXPENSES>>,
     rows |-> << <<<<"n", "/", "a">>, Num(10), Num(-4)>>, <<Num(20), Num(12), Num(-5)>> >>]

\* a balance sheet without any equity line
BalanceSheetNoEquity ==
    Reports(<<ST_BORROWINGS, CASH_EQ, TOTAL_ASSETS_BN, LIABILITIES_BN>>,
            << <<5, 6, 90, 40>>, <<8, 8, 100, 40>> >>)

Answer(data) == [raises |-> FALSE, data |-> data]

Raises == [raises |-> TRUE]

PriceBoard(listed_share) ==
    Answer([columns |-> <<COL_match_price, COL_listed_share>>,
            rows |-> << <<Num(90000), Num(listed_share)>> >>])

Peer(symbol) == [symbol |-> symbol]

\* the sector-peer store: the banks with their medians, and two more sectors
Store(median_pe, median_pb) ==
    [unreadable |-> FALSE,
     all_sectors |->
        << [key |-> SECTOR_REAL_ESTATE,
            data |-> [median_pe |-> R(9, 1), median_pb |-> R(11, 10),
                      peers |-> <<Peer(CTG)>>]],
           [key |-> SECTOR_BANKS,
            data |-> [median_pe |-> median_pe, median_pb |-> median_pb,
                      peers |-> <<Peer(VCB), Peer(BID), Peer(CTG)>>, total_in_sector |-> 27]],
           [key |-> STORE_STEEL_METALS,
            data |-> [median_pe |-> R(7, 1), median_pb |-> R(9, 10), peers |-> <<>>]] >>]

\* the world of a listed bank whose files and accessors are all in order
Listed ==
    [income_statement |-> Answer(IncomeStatement),
     cash_flow |-> Answer(CashFlow),
     balance_sheet |-> Answer(BalanceSheet),
     price_board |-> PriceBoard(20),
     stock_files |-> (VCB :> [sector |-> SUBJECT_COMMERCIAL_BANKS]),
     sector_peers_file |-> Store(R(12, 1), R(2, 1))]

\* the worlds that differ from it in one respect
Worlds ==
    { Listed,
      [Listed EXCEPT !.price_board = PriceBoard(0)],
      [Listed EXCEPT !.price_board = Raises],
      [Listed EXCEPT !.price_board = Answer([columns |-> <<COL_match_price>>,
                                             rows |-> << <<Num(90000)>> >>])],
      [Listed EXCEPT !.income_statement = Raises],
      [Listed EXCEPT !.income_statement = Answer(DatedIncomeStatement)],
      [Listed EXCEPT !.balance_sheet = Raises],
      [Listed EXCEPT !.income_statement = Answer(EmptyDataFrame),
                     !.cash_flow = Answer(EmptyDataFrame),
                     !.balance_sheet = Answer(EmptyDataFrame)],
      [Listed EXCEPT !.balance_sheet = Answer(BalanceSheetNoEquity)],
      [Listed EXCEPT !.balance_sheet =
           Answer(Reports(<<ST_BORROWINGS, CASH_EQ, LIABILITIES_BN>>,
                          << <<5, 6, 40>>, <<8, 8, 40>> >>))],
      [Listed EXCEPT !.stock_files = <<>>],
      [Listed EXCEPT !.stock_files = (VCB :> [name |-> VCB])],
      [Listed EXCEPT !.stock_files = (VCB :> [sector |-> SECTOR_BANKS])],
      [Listed EXCEPT !.stock_files = (VCB :> [sector |-> SUBJECT_STEEL])],
      [Listed EXCEPT !.stock_files = (VCB :> [sector |-> SUBJECT_REAL])],
      [Listed EXCEPT !.stock_files = (VCB :> [sector |-> SUBJECT_OIL])],
      [Listed EXCEPT !.sector_peers_file = None],
      [Listed EXCEPT !.sector_peers_file.unreadable = TRUE],
      [Listed EXCEPT !.sector_peers_file = Store(None, R(-1, 1))],
      [Listed EXCEPT !.sector_peers_file = Store(R(-2, 1), None)] }

\* a session without a symbol consults none of this
Offline ==
    [income_statement |-> Raises, cash_flow |-> Raises, balance_sheet |-> Raises,
     price_board |-> Raises, stock_files |-> <<>>, sector_peers_file |-> None]

Scenario(stock_data, stock_symbol, outside, given) ==
    [stock_data |-> stock_data, stock_symbol |-> stock_symbol, world |-> outside,
     assumptions |-> given]

\* the supplied figures that are tried under every assumption set
VariedStockData ==
    { With(Figures, [shares_outstanding |-> RInt(20)]),
      With(Figures, [shares_outstanding |-> RInt(20), net_income_ttm |-> RInt(-30)]),
      With(Figures, [shares_outstanding |-> RInt(0), eps |-> RInt(2000), bvps |-> RInt(9000)]) }

\* sessions over supplied figures
SuppliedScenarios ==
    { Scenario(d, None, Offline, OneYear) : d \in StockDataChoices }
    \cup { Scenario(d, None, Offline, a) : d \in VariedStockData, a \in AssumptionChoices }

\* the worlds that differ in what the price board answers
PriceBoardWorlds == { w \in Worlds : w.price_board # Listed.price_board }

\* sessions over a symbol, given in lower case, with and without supplied shares
SymbolScenarios ==
    { Scenario(<<>>, <<"v", "c", "b">>, w, OneYear) : w \in Worlds }
    \cup { Scenario([shares_outstanding |-> RInt(25)], <<"v", "c", "b">>, w, OneYear) :
             w \in PriceBoardWorlds \cup {Listed} }
    \cup { Scenario(<<>>, <<"v", "c", "b">>, Listed,
                    [forecast_years |-> 1, revenue_growth |-> R(8, 100),
                     data_frequency |-> "quarter"]) }

Scenarios == SuppliedScenarios \cup SymbolScenarios

Init ==
    /\ \E sc \in Scenarios :
          /\ session = NewSession(sc.stock_data, sc.stock_symbol)
          /\ world = sc.world
          /\ assumptions = sc.assumptions
    /\ arg = None
    /\ last = [op |-> "init"]

\* the largest number of calls made on one accessor or file
Busiest(self) ==
    LET f == self.fetches
        counts == { f.income_statement[p] : p \in DOMAIN f.income_statement }
                  \cup { f.cash_flow[p] : p \in DOMAIN f.cash_flow }
                  \cup { f.balance_sheet[p] : p \in DOMAIN f.balance_sheet }
                  \cup { f.price_board, f.stock_file, f.sector_peers_file }
    IN  CHOOSE m \in counts : \A n \in counts : n <= m

\* a session is followed until an accessor has been called MaxFetches times
InUse == Busiest(session) < MaxFetches

CalculateAllModels ==
    /\ InUse
    /\ \E r \in {calculate_all_models(session, world, assumptions)} :
           /\ session' = r.self
           /\ last' = [op |-> "calculate_all_models", raised |-> r.raised, ret |-> r.ret,
                        locals |-> r.locals]
           /\ assumptions' = r.given
    /\ UNCHANGED <<world, arg>>

CalculateFcfe ==
    /\ InUse
    /\ \E r \in {calculate_fcfe(session, world, assumptions)} :
           /\ session' = r.self
           /\ last' = [op |-> "calculate_fcfe", ret |-> r.ret, locals |-> r.locals]
    /\ UNCHANGED <<world, assumptions, arg>>

CalculateFcff ==
    /\ InUse
    /\ \E r \in {calculate_fcff(session, world, assumptions)} :
           /\ session' = r.self
           /\ last' = [op |-> "calculate_fcff", ret |-> r.ret, locals |-> r.locals]
    /\ UNCHANGED <<world, assumptions, arg>>

CalculateJustifiedPe ==
    /\ InUse
    /\ \E r \in {calculate_justified_pe(session, world, assumptions)} :
           /\ session' = r.self
           /\ last' = [op |-> "calculate_justified_pe", ret |-> r.ret]
    /\ UNCHANGED <<world, assumptions, arg>>

CalculateJustifiedPb ==
    /\ InUse
    /\ \E r \in {calculate_justified_pb(session, world, assumptions)} :
           /\ session' = r.self
           /\ last' = [op |-> "calculate_justified_pb", ret |-> r.ret]
    /\ UNCHANGED <<world, assumptions, arg>>

GetSharesOutstanding ==
    /\ InUse
    /\ \E r \in {get_shares_outstanding(session, world)} :
           /\ session' = r.self
           /\ last' = [op |-> "get_shares_outstanding", ret |-> r.ret]
    /\ UNCHANGED <<world, assumptions, arg>>

GetSectorPeers ==
    /\ InUse
    /\ \E r \in {get_sector_peers(session, world, NUM_PEERS)} :
           /\ session' = r.self
           /\ last' = IF r.raised THEN [op |-> "get_sector_peers", raised |-> TRUE]
                      ELSE [op |-> "get_sector_peers", raised |-> FALSE, ret |-> r.ret]
    /\ UNCHANGED <<world, assumptions, arg>>

Next ==
    \/ CalculateAllModels
    \/ CalculateFcfe
    \/ CalculateFcff
    \/ CalculateJustifiedPe
    \/ CalculateJustifiedPb
    \/ GetSharesOutstanding
    \/ GetSectorPeers

Spec == Init /\ [][Next]_vars

-----------------------------------------------------------------------------
(* The helpers called on their own: the arguments are drawn in the initial  *)
(* state and the one action applies the helper to them.                     *)

MaxRows == 5

MaxWindow == 2

\* a session that is not used while a helper is exercised
IdleSession ==
    /\ session = None
    /\ world = None
    /\ assumptions = None

session_vars == <<session, world, assumptions>>

PeriodChoices ==
    { <<Num(2023), Num(4)>>, <<Num(2024), Num(2)>>, <<Num(2024), Num(4)>>,
      <<NaN, Num(4)>> }

DateChoices == {Num(10), Num(20), <<"n", "/", "a">>}

\* tables with the (yearReport, lengthReport) pair; the last cell numbers the row
PeriodTables(n) ==
    { [columns |-> <<COL_ticker, COL_yearReport, COL_lengthReport, NET_PROFIT>>,
       rows |-> [i \in 1..n |-> <<<<"V", "N", "M">>, p[i][1], p[i][2], Num(i)>>]] :
         p \in [1..n -> PeriodChoices] }

\* tables with a generic date column only
DateTables(n) ==
    { [columns |-> <<COL_date, NET_PROFIT>>, rows |-> [i \in 1..n |-> <<d[i], Num(i)>>]] :
         d \in [1..n -> DateChoices] }

\* tables without any time column, with a quarter-length column only, and with
\* a year column only ('Net Profit For the Year' contains the keyword 'year'
\* and is itself taken for a time column)
OtherTables(n) ==
    { [columns |-> <<DEPRECIATION, INTEREST_EXPENSES>>,
        rows |-> [i \in 1..n |-> <<Num(i), Num(10 * i)>>]],
      [columns |-> <<COL_lengthReport, NET_PROFIT>>, rows |-> [i \in 1..n |-> <<Num(4), Num(i)>>]],
      [columns |-> <<NET_PROFIT, COL_yearReport>>, rows |-> [i \in 1..n |-> <<Num(i), Num(2020 + i)>>]] }

FrequencyTables ==
    UNION { PeriodTables(n) \cup DateTables(n) \cup OtherTables(n) : n \in 0..MaxRows }

InitFreq ==
    /\ IdleSession
    /\ arg \in [data : FrequencyTables, expected_frequency : {"year", "quarter"}]
    /\ last = [op |-> "init"]

CheckDataFrequency ==
    /\ last.op = "init"
    /\ "expected_frequency" \in DOMAIN arg
    /\ last' = [op |-> "check_data_frequency",
                ret |-> check_data_frequency(arg.data, arg.expected_frequency)]
    /\ UNCHANGED <<session_vars, arg>>

SpecFreq == InitFreq /\ [][CheckDataFrequency]_vars

FindColumnSets ==
    { <<NET_PROFIT_BN, PURCHASE_FIXED, DISPOSAL_FIXED>>,
      <<INTEREST_EXPENSES, NET_PROFIT_UP, CAPITAL_CONTRIB>>,
      <<PURCHASE_FIXED_BN, PURCHASE_FIXED, NET_PROFIT>>,
      <<CAPITAL_CONTRIB, CASH_EQ, PURCHASE_FIXED>>,
      <<>> }

\* the cell of row i, column j when it is not missing: the sums of distinct
\* sets of cells differ
CellValue(i, j) == i * <<1, 10, 100>>[j]

FindTablesOf(cols, n) ==
    { [columns |-> cols,
       rows |-> [i \in 1..n |-> [j \in 1..Len(cols) |->
                    IF present[i][j] THEN Num(CellValue(i, j)) ELSE NaN]]] :
         present \in [1..n -> [1..Len(cols) -> BOOLEAN]] }

FindTables == UNION { FindTablesOf(cols, n) : cols \in FindColumnSets, n \in 0..MaxWindow }

FindTargetLists ==
    { <<NET_PROFIT>>,
      <<PURCHASE_FIXED, DISPOSAL_FIXED>>,
      <<CAPITAL_CONTRIB, PURCHASE_FIXED>>,
      <<NET_PROFIT, INTEREST_EXPENSES>>,
      <<INTEREST_EXPENSES, NET_PROFIT>>,
      <<PURCHASE_FIXED, NET_PROFIT>>,
      <<NET_PROFIT, PURCHASE_FIXED>>,
      <<TOTAL_ASSETS, TOTAL_ASSETS_UP>>,
      <<CASH_EQ_VI, CASH>> }

InitFind ==
    /\ IdleSession
    /\ arg \in [data : FindTables, column_names : FindTargetLists, is_quarterly : BOOLEAN]
    /\ last = [op |-> "init"]

FindFinancialValue ==
    /\ last.op = "init"
    /\ "column_names" \in DOMAIN arg
    /\ last' = [op |-> "find_financial_value",
                ret |-> find_financial_value(arg.data, arg.column_names, arg.is_quarterly)]
    /\ UNCHANGED <<session_vars, arg>>

SpecFind == InitFind /\ [][FindFinancialValue]_vars

-----------------------------------------------------------------------------
(* Properties of the frequency normaliser, checked under SpecFreq.          *)

\* whether a table carries a column the normaliser takes for a time column
DetectsTimeColumn(data) ==
    \E j \in 1..Len(data.columns) :
        NameInfo[data.columns[j]].time \/ NameInfo[data.columns[j]].quarter

RowLimit(expected_frequency) == IF expected_frequency = "quarter" THEN 4 ELSE 1

Normalised == last.op = "check_data_frequency" /\ ~last.ret.raised

\* C5 as stated: check_data_frequency returns at most 4 rows on a 'quarter'
\* request and at most 1 row on a 'year' request, whichever branch is taken,
\* the branch without any time column included.
C5_AsStated ==
    Normalised => Len(last.ret.data.rows) <= RowLimit(arg.expected_frequency)

\* C5 amended: when the table has a time or quarter column, check_data_frequency
\* returns at most 4 rows on a 'quarter' request and at most 1 row on a 'year'
\* request; when it has none, the table is returned unchanged, whatever its
\* number of rows, with the requested frequency.
C5_RowLimit ==
    Normalised =>
        IF DetectsTimeColumn(arg.data)
        THEN Len(last.ret.data.rows) <= RowLimit(arg.expected_frequency)
        ELSE last.ret.data = arg.data /\ last.ret.freq = arg.expected_frequency

\* a quarter request on a table with a time column and more than 4 rows, cut to 4
C5_Witness ==
    /\ Normalised
    /\ DetectsTimeColumn(arg.data)
    /\ arg.expected_frequency = "quarter"
    /\ Len(arg.data.rows) > 4
    /\ Len(last.ret.data.rows) = 4

-----------------------------------------------------------------------------
(* Properties of the field resolver, checked under SpecFind.                *)

Resolved == last.op = "find_financial_value"

\* the name contains 'fixed' or 'capital'
NamesFlow(name) == NameInfo[name].fixed \/ NameInfo[name].capital

\* the label of column j is the target name, units and case aside
LabelIs(data, j, name) ==
    \/ NameInfo[name].lower_strip = NameInfo[data.columns[j]].data_col_clean
    \/ NameInfo[name].lower_strip = NameInfo[data.columns[j]].lower_strip

HoldsValue(data, j) == \E i \in 1..Len(data.rows) : data.rows[i][j] # NaN

\* what one column contributes: the sum of its window, or its first value
ColumnFigure(data, j, is_quarterly) ==
    LET present == { i \in 1..Len(data.rows) : data.rows[i][j] # NaN }
        first == CHOOSE i \in present : \A k \in present : i <= k
    IN  IF present = {} THEN 0
        ELSE IF is_quarterly THEN IntSum([i \in 1..Len(data.rows) |->
                                            IF i \in present THEN data.rows[i][j] ELSE Num(0)])
        ELSE data.rows[first][j][1]

\* the sum over every synonym and every column carrying its label
RECURSIVE SumOverSynonyms(_, _, _, _)
SumOverSynonyms(data, names, is_quarterly, i) ==
    IF i > Len(names) THEN 0
    ELSE IntSum([j \in 1..Len(data.columns) |->
                   IF LabelIs(data, j, names[i])
                   THEN Num(ColumnFigure(data, j, is_quarterly)) ELSE Num(0)])
         + SumOverSynonyms(data, names, is_quarterly, i + 1)

\* the figure of the first column carrying the label of the first synonym that
\* has such a column (with need_value: a column that also holds a value), 0
\* when no synonym has one
FirstSynonymFigure(data, names, is_quarterly, need_value) ==
    LET Usable(j, name) == LabelIs(data, j, name) /\ (need_value => HoldsValue(data, j))
        hits == { i \in 1..Len(names) : \E j \in 1..Len(data.columns) : Usable(j, names[i]) }
        i0 == CHOOSE i \in hits : \A k \in hits : i <= k
        cols == { j \in 1..Len(data.columns) : Usable(j, names[i0]) }
        j0 == CHOOSE j \in cols : \A k \in cols : j <= k
    IN  IF hits = {} THEN 0 ELSE ColumnFigure(data, j0, is_quarterly)

\* C6 as stated: on a target list whose names contain 'fixed' or 'capital'
\* find_financial_value returns the sum over every synonym's matching columns;
\* on any other list it returns the value of the first synonym that matches a
\* column and ignores every later synonym.  (A list that mixes the two kinds of
\* name may be read as either kind: the statement is taken to hold of it when
\* one of the two results is returned.)
C6_AsStated ==
    Resolved /\ ~IsEmpty(arg.data) =>
        LET names == arg.column_names
            sum == SumOverSynonyms(arg.data, names, arg.is_quarterly, 1)
            first == FirstSynonymFigure(arg.data, names, arg.is_quarterly, TRUE)
        IN  IF \A i \in 1..Len(names) : NamesFlow(names[i]) THEN last.ret = sum
            ELSE IF \A i \in 1..Len(names) : ~NamesFlow(names[i]) THEN last.ret = first
            ELSE last.ret = sum \/ last.ret = first

\* C6 amended: on a target list all of whose names contain 'fixed' or 'capital'
\* find_financial_value returns the sum over every synonym's matching columns;
\* on a list none of whose names contains them it returns the value of the
\* first synonym that matches a column holding a value that is not missing, and
\* ignores every later synonym.  (A list that mixes the two kinds is not
\* covered.)
C6_Aggregation ==
    Resolved /\ ~IsEmpty(arg.data) =>
        /\ (\A i \in 1..Len(arg.column_names) : NamesFlow(arg.column_names[i]))
              => last.ret = SumOverSynonyms(arg.data, arg.column_names, arg.is_quarterly, 1)
        /\ (\A i \in 1..Len(arg.column_names) : ~NamesFlow(arg.column_names[i]))
              => last.ret = FirstSynonymFigure(arg.data, arg.column_names, arg.is_quarterly,
                                               TRUE)

\* two flow synonyms that each match a column holding values: both are summed
C6_Witness ==
    /\ Resolved
    /\ arg.column_names = <<PURCHASE_FIXED, DISPOSAL_FIXED>>
    /\ arg.data.columns = <<NET_PROFIT_BN, PURCHASE_FIXED, DISPOSAL_FIXED>>
    /\ HoldsValue(arg.data, 2) /\ HoldsValue(arg.data, 3)
    /\ last.ret = ColumnFigure(arg.data, 2, arg.is_quarterly)
                  + ColumnFigure(arg.data, 3, arg.is_quarterly)

\* C7: find_financial_value returns 0 for every target list when the table is
\* empty, and when no column matches a target name or every matching column
\* holds only missing values.
C7_ZeroWhenUnresolved ==
    (/\ Resolved
     /\ \/ IsEmpty(arg.data)
        \/ \A i \in 1..Len(arg.column_names) : \A j \in 1..Len(arg.data.columns) :
              LabelIs(arg.data, j, arg.column_names[i]) => ~HoldsValue(arg.data, j))
    => last.ret = 0

\* a table with rows and values of which no column matches the target names
C7_Witness ==
    /\ Resolved
    /\ Len(arg.data.rows) > 0
    /\ \E j \in 1..Len(arg.data.columns) : HoldsValue(arg.data, j)
    /\ \A i \in 1..Len(arg.column_names) : \A j \in 1..Len(arg.data.columns) :
          ~LabelIs(arg.data, j, arg.column_names[i])
    /\ last.ret = 0

-----------------------------------------------------------------------------
(* Properties of the session, checked under Spec.                           *)

\* the last call was calculate_all_models and it returned the results
AllModelsRan == last.op = "calculate_all_models" /\ "fcfe" \in DOMAIN last.ret

\* get_shares_outstanding has answered 0 in this session
SharesResolvedToZero == AllModelsRan /\ session.shares_outstanding_cache = ZERO

\* the per-share figure stock_data carries for the earnings multiple
SuppliedEps ==
    IF HasStock(session) THEN ZERO ELSE Get(session.stock_data, "eps", ZERO)

\* the per-share figure stock_data carries for the book multiple
SuppliedBvps ==
    IF HasStock(session) THEN ZERO
    ELSE IF ~RIsZero(Get(session.stock_data, "bvps", ZERO))
    THEN session.stock_data.bvps
    ELSE Get(session.stock_data, "book_value_per_share", ZERO)

SharesSupplied == "shares_outstanding" \in DOMAIN session.stock_data

\* the price board answers and has a column for the listed shares
BoardListsShares ==
    /\ HasStock(session)
    /\ ~world.price_board.raises
    /\ \E j \in 1..Len(world.price_board.data.columns) :
          NameInfo[world.price_board.data.columns[j]].listed_share

\* nothing tells the share count
SharesUnknown ==
    \/ ~HasStock(session) /\ ~SharesSupplied
    \/ HasStock(session) /\ world.price_board.raises /\ ~SharesSupplied
    \/ HasStock(session) /\ ~world.price_board.raises /\ ~BoardListsShares

\* the share count that is supplied or listed is itself not strictly positive
UnusableSharesGiven ==
    \/ SharesSupplied /\ ~RPos(session.stock_data.shares_outstanding)
    \/ /\ BoardListsShares
       /\ \E j \in 1..Len(world.price_board.data.columns) :
             /\ NameInfo[world.price_board.data.columns[j]].listed_share
             /\ ~RPos(RInt(world.price_board.data.rows[1][j][1]))

\* C2 as stated: get_shares_outstanding always returns a strictly positive
\* number
C2_AsStated == last.op = "get_shares_outstanding" => RPos(last.ret)

\* C2, amended: get_shares_outstanding returns the default of 1,000,000,000
\* whenever the share count is unknown, and a value that is not strictly
\* positive only when that very value was supplied or listed
C2_DefaultWhenUnknown ==
    last.op = "get_shares_outstanding" =>
        /\ SharesUnknown => last.ret = RInt(DEFAULT_SHARES_OUTSTANDING)
        /\ ~RPos(last.ret) => UnusableSharesGiven

C2_Witness ==
    /\ last.op = "get_shares_outstanding"
    /\ HasStock(session)
    /\ world.price_board.raises
    /\ last.ret = RInt(DEFAULT_SHARES_OUTSTANDING)
    /\ session.shares_outstanding_cache = last.ret

\* the local values of the runs of the cash-flow models that the last call
\* made and that reached the terminal-value step
TerminalRuns ==
    IF last.op \in {"calculate_fcfe", "calculate_fcff"}
    THEN { run \in {last.locals} : run # None }
    ELSE IF AllModelsRan
    THEN { run \in {last.locals.fcfe, last.locals.fcff} : run # None }
         \cup { last.locals.sensitivity_analysis[i] :
                  i \in { n \in 1..Len(last.locals.sensitivity_analysis) :
                            last.locals.sensitivity_analysis[n] # None } }
    ELSE {}

\* C3: in every run of calculate_fcfe and calculate_fcff that reaches the
\* terminal-value step the rate of the denominator is strictly greater than
\* the terminal growth, and at least terminal growth + 0.02 whenever the raw
\* rate is not greater than the terminal growth
C3_SpreadKept ==
    \A run \in TerminalRuns :
        /\ RLt(run.terminal_growth, run.rate)
        /\ RPos(run.denominator)
        /\ RLe(run.raw, run.terminal_growth) =>
              RLe(RAdd(run.terminal_growth, R(2, 100)), run.rate)

C3_Witness ==
    /\ last.op = "calculate_fcfe"
    /\ \E run \in TerminalRuns :
          /\ RLt(run.raw, run.terminal_growth)
          /\ run.rate = RAdd(run.terminal_growth, R(2, 100))

\* the records calculate_fcfe returned in the last call
FcfeReports ==
    IF last.op = "calculate_fcfe" THEN {last.ret}
    ELSE IF AllModelsRan THEN {last.ret.fcfe}
    ELSE {}

\* the rate the claim names r'
EffectiveRate(r, g) == IF RLt(g, r) THEN r ELSE RMax(r, RAdd(g, R(2, 100)))

\* C4: the terminalValue that calculate_fcfe reports equals
\* lastFlow * (1 + g) / (r' - g), lastFlow being the base flow grown over the
\* horizon and r' the cost of equity, or max(cost of equity, g + 0.02) when
\* the cost of equity is not greater than g
C4_TerminalValue ==
    \A rep \in FcfeReports :
        "terminalValue" \in DOMAIN rep =>
            /\ rep.assumptions.forecastYears >= 1
            /\ rep.terminalValue =
                  RDiv(RMul(RMul(rep.baseFCFE,
                                 RPow(RAdd(ONE, rep.assumptions.shortTermGrowth),
                                      rep.assumptions.forecastYears)),
                            RAdd(ONE, rep.assumptions.terminalGrowth)),
                       RSub(EffectiveRate(rep.assumptions.costOfEquity,
                                          rep.assumptions.terminalGrowth),
                            rep.assumptions.terminalGrowth))

C4_Witness ==
    /\ last.op = "calculate_fcfe"
    /\ "terminalValue" \in DOMAIN last.ret
    /\ last.ret.assumptions.forecastYears = 2
    /\ RPos(last.ret.assumptions.terminalGrowth)
    /\ RPos(last.ret.terminalValue)

\* the four valuation models
FourModels == {"fcfe", "fcff", "justified_pe", "justified_pb"}

\* the per-share value of model k in the results of the last call
ModelValue(k) ==
    IF k \in {"fcfe", "fcff"} THEN last.ret[k].shareValue ELSE last.ret[k]

\* the weights the caller gave, or the defaults
Weights == Get(assumptions, "model_weights", DEFAULT_MODEL_WEIGHTS)

\* the models with a strictly positive value
PositiveModels == { k \in FourModels : RPos(ModelValue(k)) }

\* those of them that the weight map names
ValidModels == { k \in PositiveModels : k \in DOMAIN Weights }

\* a model of S with the least, resp. the greatest value
LeastOf(S) == CHOOSE k \in S : \A j \in S : RLe(ModelValue(k), ModelValue(j))

GreatestOf(S) == CHOOSE k \in S : \A j \in S : RLe(ModelValue(j), ModelValue(k))

\* the sum of F over the valid models
OverValid(F(_)) ==
    LET Term(k) == IF k \in ValidModels THEN F(k) ELSE ZERO
    IN  RAdd(RAdd(Term("fcfe"), Term("fcff")),
             RAdd(Term("justified_pe"), Term("justified_pb")))

ValueOf(k) == ModelValue(k)

WeightOf(k) == Weights[k]

WeightedValueOf(k) == RMul(ModelValue(k), Weights[k])

\* C8 as stated: whenever one of the four models has a strictly positive
\* value, weighted_average lies between the least and the greatest of the
\* positive values, also when the weight map gives them weight 0
C8_AsStated ==
    AllModelsRan /\ PositiveModels # {} =>
        /\ RLe(ModelValue(LeastOf(PositiveModels)), last.ret.weighted_average)
        /\ RLe(last.ret.weighted_average, ModelValue(GreatestOf(PositiveModels)))

\* C8, amended: whenever a model with a strictly positive value has a
\* strictly positive weight, weighted_average lies between the least and the
\* greatest value of the positive models that the weight map names
C8_WithinRange ==
    AllModelsRan /\ (\E k \in ValidModels : RPos(Weights[k])) =>
        /\ RLe(ModelValue(LeastOf(ValidModels)), last.ret.weighted_average)
        /\ RLe(last.ret.weighted_average, ModelValue(GreatestOf(ValidModels)))

C8_Witness ==
    /\ AllModelsRan
    /\ \E k \in ValidModels : RPos(Weights[k])
    /\ \E k \in ValidModels : RIsZero(Weights[k])
    /\ RLt(ModelValue(LeastOf(ValidModels)), last.ret.weighted_average)
    /\ RLt(last.ret.weighted_average, ModelValue(GreatestOf(ValidModels)))

\* C9: weighted_average and the summary statistics are computed from the
\* strictly positive model values alone, and without a valid model
\* weighted_average is 0 and summary is empty
C9_OnlyPositive ==
    AllModelsRan =>
        /\ ValidModels = {} => last.ret.weighted_average = ZERO /\ last.ret.summary = <<>>
        /\ last.ret.summary = <<>> => last.ret.weighted_average = ZERO
        /\ last.ret.summary # <<>> =>
              /\ last.ret.summary.models_used = Cardinality(ValidModels)
              /\ last.ret.summary.min = ModelValue(LeastOf(ValidModels))
              /\ last.ret.summary.max = ModelValue(GreatestOf(ValidModels))
              /\ RMul(last.ret.summary.average, RInt(Cardinality(ValidModels)))
                    = OverValid(ValueOf)
              /\ RMul(last.ret.weighted_average, OverValid(WeightOf))
                    = OverValid(WeightedValueOf)

C9_Witness ==
    /\ AllModelsRan
    /\ last.ret.summary # <<>>
    /\ \E k \in FourModels \cap DOMAIN Weights : RLt(ModelValue(k), ZERO)
    /\ \E k \in FourModels \cap DOMAIN Weights : RIsZero(ModelValue(k))

\* the grid of the last call is not null
GridReported == AllModelsRan /\ last.ret.sensitivity_analysis # None

\* a base assumption as a percentage
BasePercent(key, default) == RMul(Get(assumptions, key, default), RInt(100))

\* the offsets of the grid in percentage points
PointOffsets == <<R(-1, 1), R(-1, 2), ZERO, R(1, 2), ONE>>

Increasing(headers) ==
    \A i \in 1..(Len(headers) - 1) : RLt(headers[i], headers[i + 1])

\* five row headers, five column headers and five rows of five values
FiveByFive(grid) ==
    /\ Len(grid.row_headers) = 5
    /\ Len(grid.col_headers) = 5
    /\ Len(grid.values) = 5
    /\ \A i \in 1..5 : Len(grid.values[i]) = 5

\* C10 as stated: the grid is 5 by 5 with increasing headers whose middle
\* entry is the base rate as a percentage rounded to one decimal, the other
\* entries lying 1.0 and 0.5 points below and above it
C10_AsStated ==
    GridReported =>
        /\ FiveByFive(last.ret.sensitivity_analysis)
        /\ Increasing(last.ret.sensitivity_analysis.row_headers)
        /\ Increasing(last.ret.sensitivity_analysis.col_headers)
        /\ \A i \in 1..5 :
              /\ last.ret.sensitivity_analysis.row_headers[i]
                    = RAdd(Round1(BasePercent("wacc", DEFAULT_WACC)), PointOffsets[i])
              /\ last.ret.sensitivity_analysis.col_headers[i]
                    = RAdd(Round1(BasePercent("terminal_growth", DEFAULT_TERMINAL_GROWTH)),
                           PointOffsets[i])

\* C10, amended: the grid is 5 by 5 with increasing headers, each header
\* being the base rate as a percentage moved by -1.0, -0.5, 0, +0.5 or +1.0
\* points and then rounded to one decimal
C10_Headers ==
    GridReported =>
        /\ FiveByFive(last.ret.sensitivity_analysis)
        /\ Increasing(last.ret.sensitivity_analysis.row_headers)
        /\ Increasing(last.ret.sensitivity_analysis.col_headers)
        /\ \A i \in 1..5 :
              /\ last.ret.sensitivity_analysis.row_headers[i]
                    = Round1(RAdd(BasePercent("wacc", DEFAULT_WACC), PointOffsets[i]))
              /\ last.ret.sensitivity_analysis.col_headers[i]
                    = Round1(RAdd(BasePercent("terminal_growth", DEFAULT_TERMINAL_GROWTH),
                                  PointOffsets[i]))

C10_Witness ==
    /\ GridReported
    /\ last.ret.sensitivity_analysis.col_headers[3] = R(32, 10)
    /\ last.ret.sensitivity_analysis.col_headers[2] = R(28, 10)
    /\ last.ret.sensitivity_analysis.values[3][3] > 0

\* the sector label the subject's stock file gives, or None when the session
\* has no symbol, the file is missing or it names no sector
SubjectSector ==
    IF HasStock(session) /\ Upper(session.stock_symbol) \in DOMAIN world.stock_files
    THEN Get(world.stock_files[Upper(session.stock_symbol)], "sector", None)
    ELSE None

\* the peer store is there and can be read
StoreReadable ==
    world.sector_peers_file # None /\ ~world.sector_peers_file.unreadable

\* the sector labels the peer store holds
StoreKeys ==
    IF world.sector_peers_file = None THEN {}
    ELSE { world.sector_peers_file.all_sectors[i].key :
             i \in 1..Len(world.sector_peers_file.all_sectors) }

\* the alias table's targets for the subject's label
AliasTargets ==
    { sector_mapping[i][2] :
        i \in { n \in 1..Len(sector_mapping) : sector_mapping[n][1] = SubjectSector } }

\* a store key contains the subject's label or is contained in it
SubstringKeys ==
    { k \in StoreKeys : Contains(k, SubjectSector) \/ Contains(SubjectSector, k) }

\* the store is read and holds no exact, alias or substring match of the label
NoSectorMatch ==
    /\ SubjectSector # None
    /\ StoreReadable
    /\ SubjectSector \notin StoreKeys
    /\ AliasTargets \cap StoreKeys = {}
    /\ SubstringKeys = {}

\* no sector statistics can be had: the label matches nothing, the store is
\* missing, or the sector of the subject is not known
PeersUnavailable ==
    \/ NoSectorMatch
    \/ SubjectSector = None
    \/ world.sector_peers_file = None

\* a sector was matched and its median under the given key is null or not
\* positive
MedianUnusable(key) ==
    /\ session.sector_peers_cache # None
    /\ "total_in_sector" \in DOMAIN session.sector_peers_cache
    /\ \/ session.sector_peers_cache[key] = None
       \/ RLe(session.sector_peers_cache[key], ZERO)

\* the earnings per share of the subject, as the session's inputs give them
SubjectEps ==
    CurrentEps(session, world, Get(assumptions, "data_frequency", "year"),
               session.shares_outstanding_cache)

\* the book value per share of the subject, as the session's inputs give it
SubjectBvps ==
    BookValuePerShare(session, world, Get(assumptions, "data_frequency", "year"),
                      session.shares_outstanding_cache)

\* what calculate_justified_pe returned in the last call
PeReports ==
    IF last.op = "calculate_justified_pe" THEN {last.ret}
    ELSE IF AllModelsRan THEN {last.ret.justified_pe}
    ELSE {}

\* what calculate_justified_pb returned in the last call
PbReports ==
    IF last.op = "calculate_justified_pb" THEN {last.ret}
    ELSE IF AllModelsRan THEN {last.ret.justified_pb}
    ELSE {}

\* C11: when the subject's sector label has no exact, alias or substring
\* match in the peer store, or the store or the sector is not available, or
\* the matched sector's median is null or not positive, calculate_justified_pe
\* with positive earnings per share returns 15.0 times the earnings per share
\* and calculate_justified_pb with positive book value per share returns 1.5
\* times the book value per share
C11_MarketMultiples ==
    /\ \A ret \in PeReports :
          (/\ ~SubjectEps.raised
           /\ RPos(SubjectEps.current_eps)
           /\ PeersUnavailable \/ MedianUnusable("median_pe"))
          => ret = RMul(R(15, 1), SubjectEps.current_eps)
    /\ \A ret \in PbReports :
          (/\ ~SubjectBvps.raised
           /\ RPos(SubjectBvps.bvps)
           /\ PeersUnavailable \/ MedianUnusable("median_pb"))
          => ret = RMul(R(15, 10), SubjectBvps.bvps)

C11_Witness ==
    /\ last.op = "calculate_justified_pb"
    /\ NoSectorMatch
    /\ SubjectSector = SUBJECT_OIL
    /\ RPos(SubjectBvps.bvps)
    /\ last.ret = RMul(R(15, 10), SubjectBvps.bvps)
    /\ session.fetches.sector_peers_file = 1

\* the three statement accessors
StatementAccessors == {"income_statement", "cash_flow", "balance_sheet"}

\* the accessor answers with a table
ReturnsTable(accessor) == ~world[accessor].raises

\* the sum of the counts f keeps for the keys in S
RECURSIVE SumOver(_, _)
SumOver(f, S) ==
    IF S = {} THEN 0
    ELSE f[CHOOSE p \in S : TRUE] + SumOver(f, S \ {CHOOSE p \in S : TRUE})

\* the calls made on an accessor in this session, over all frequencies
CallsOn(accessor) ==
    SumOver(session.fetches[accessor], DOMAIN session.fetches[accessor])

\* C12: an accessor that returns a table is called at most once per statement
\* kind and frequency in a session, whatever models and calculate_all_models
\* calls are made; the four models and the 25 sensitivity runs of
\* calculate_all_models make at most 3 statement fetches between them
C12_FetchedOnce ==
    /\ \A a \in StatementAccessors :
          ReturnsTable(a) =>
              \A p \in DOMAIN session.fetches[a] : session.fetches[a][p] <= 1
    /\ (AllModelsRan /\ \A a \in StatementAccessors : ReturnsTable(a)) =>
          CallsOn("income_statement") + CallsOn("cash_flow") + CallsOn("balance_sheet") <= 3

C12_Witness ==
    /\ AllModelsRan
    /\ last.ret.sensitivity_analysis # None
    /\ Len(last.locals.sensitivity_analysis) = 25
    /\ \A a \in StatementAccessors :
          ReturnsTable(a) /\ session.fetches[a] = [year |-> 1]

\* C13 as stated: within one session the subject's stock file and the
\* sector-peer store are each read at most once, whatever the outcome of the
\* first get_sector_peers call and whichever method makes the later calls
C13_AsStated ==
    /\ session.fetches.stock_file <= 1
    /\ session.fetches.sector_peers_file <= 1

-----------------------------------------------------------------------------
(* The four models called one after another on a fresh session, each once,  *)
(* in any order: arg holds the models called so far, in the order of the    *)
(* calls, and last.ret what each of them returned.                          *)

InitOrder ==
    /\ \E sc \in Scenarios :
          /\ session = NewSession(sc.stock_data, sc.stock_symbol)
          /\ world = sc.world
          /\ assumptions = sc.assumptions
    /\ arg = <<>>
    /\ last = [op |-> "init", ret |-> <<>>]

\* the model has not been called yet
NotRun(key) == \A i \in 1..Len(arg) : arg[i] # key

\* the session and the results gathered so far
Gathered == [self |-> session, ret |-> last.ret, locals |-> <<>>, given |-> assumptions]

OrderFcfe ==
    /\ NotRun("fcfe")
    /\ \E r \in {RunFcfe(Gathered, world, assumptions)} :
           /\ session' = r.self
           /\ last' = [op |-> "calculate_fcfe", ret |-> r.ret]
    /\ arg' = Append(arg, "fcfe")
    /\ UNCHANGED <<world, assumptions>>

OrderFcff ==
    /\ NotRun("fcff")
    /\ \E r \in {RunFcff(Gathered, world, assumptions)} :
           /\ session' = r.self
           /\ last' = [op |-> "calculate_fcff", ret |-> r.ret]
    /\ arg' = Append(arg, "fcff")
    /\ UNCHANGED <<world, assumptions>>

OrderJustifiedPe ==
    /\ NotRun("justified_pe")
    /\ \E r \in {RunJustifiedPe(Gathered, world, assumptions)} :
           /\ session' = r.self
           /\ last' = [op |-> "calculate_justified_pe", ret |-> r.ret]
    /\ arg' = Append(arg, "justified_pe")
    /\ UNCHANGED <<world, assumptions>>

OrderJustifiedPb ==
    /\ NotRun("justified_pb")
    /\ \E r \in {RunJustifiedPb(Gathered, world, assumptions)} :
           /\ session' = r.self
           /\ last' = [op |-> "calculate_justified_pb", ret |-> r.ret]
    /\ arg' = Append(arg, "justified_pb")
    /\ UNCHANGED <<world, assumptions>>

NextOrder ==
    \/ OrderFcfe
    \/ OrderFcff
    \/ OrderJustifiedPe
    \/ OrderJustifiedPb

SpecOrder == InitOrder /\ [][NextOrder]_vars

\* the session as it was constructed
Fresh == NewSession(session.stock_data, session.stock_symbol)

\* the four models called in the order of calculate_all_models (lines 33-59)
\* on the session as it was constructed
InSourceOrder ==
    RunJustifiedPb(
      RunJustifiedPe(
        RunFcff(
          RunFcfe([self |-> Fresh, ret |-> <<>>, locals |-> <<>>, given |-> assumptions],
                  world, assumptions),
          world, assumptions),
        world, assumptions),
      world, assumptions)

\* C14: whatever the order in which calculate_fcfe, calculate_fcff,
\* calculate_justified_pe and calculate_justified_pb are called on a fresh
\* session, the four results are those of the order fcfe, fcff, justified_pe,
\* justified_pb
C14_OrderInsensitive ==
    Len(arg) = 4 => last.ret = InSourceOrder.ret

C14_Witness ==
    /\ arg = <<"justified_pb", "justified_pe", "fcff", "fcfe">>
    /\ HasStock(session)
    /\ session.fetches.price_board = 1
    /\ session.sector_peers_cache # None
    /\ RPos(last.ret.fcfe.shareValue)
    /\ RPos(last.ret.fcff.shareValue)
    /\ RPos(last.ret.justified_pe)
    /\ RPos(last.ret.justified_pb)

-----------------------------------------------------------------------------
(* Further properties of the session, checked under Spec.                   *)

\* what a model returns when it is called by itself on the session as it was
\* constructed
ModelAlone(key, outside, given) ==
    CASE key = "fcfe" -> calculate_fcfe(Fresh, outside, given).ret
      [] key = "fcff" -> calculate_fcff(Fresh, outside, given).ret
      [] key = "justified_pe" -> calculate_justified_pe(Fresh, outside, given).ret
      [] key = "justified_pb" -> calculate_justified_pb(Fresh, outside, given).ret

\* the statements a model asks for (lines 463-464, 621-623, 827 and 874)
Consumes(key) ==
    CASE key = "fcfe" -> {"income_statement", "cash_flow"}
      [] key = "fcff" -> {"income_statement", "cash_flow", "balance_sheet"}
      [] key = "justified_pe" -> {"income_statement"}
      [] key = "justified_pb" -> {"balance_sheet"}

\* a statement fetch of the model raises, or the horizon leaves a cash-flow
\* model no projected flow
FailsFor(key) ==
    \/ HasStock(session) /\ \E a \in Consumes(key) : world[a].raises
    \/ key \in {"fcfe", "fcff"} /\ Get(assumptions, "forecast_years", 5) < 1

\* the world in which every statement accessor answers
Mended ==
    [a \in DOMAIN world |->
        IF a \in StatementAccessors /\ world[a].raises THEN Listed[a] ELSE world[a]]

\* the assumptions the two comparable models read
FrequencyOnly ==
    IF "data_frequency" \in DOMAIN assumptions
    THEN [data_frequency |-> assumptions.data_frequency]
    ELSE <<>>

\* C15: in calculate_all_models a model that hits an exception leaves a
\* zero-valued entry (0, or a record whose shareValue is 0), and every model
\* returns what it returns when called by itself, also in the world where the
\* failing fetches of the other models succeed and, for the comparable
\* models, whatever the cash-flow assumptions are
C15_Independent ==
    AllModelsRan =>
        \A key \in FourModels :
            /\ FailsFor(key) => get_model_value(key, last.ret[key]) = ZERO
            /\ IsDict(key) => "shareValue" \in DOMAIN last.ret[key]
            /\ last.ret[key] = ModelAlone(key, world, assumptions)
            /\ ~FailsFor(key) => last.ret[key] = ModelAlone(key, Mended, assumptions)
            /\ key \in {"justified_pe", "justified_pb"} =>
                  last.ret[key] = ModelAlone(key, world, FrequencyOnly)

C15_Witness ==
    /\ AllModelsRan
    /\ HasStock(session)
    /\ world.income_statement.raises
    /\ "error" \in DOMAIN last.ret.fcfe
    /\ "error" \in DOMAIN last.ret.fcff
    /\ last.ret.justified_pe = ZERO
    /\ last.ret.justified_pb = RMul(R(2, 1), R(60, 20))

\* the session has neither a symbol nor supplied figures
NothingSupplied == session.stock_symbol = <<>> /\ session.stock_data = <<>>

\* C16: a calculate_all_models call returns the top-level error exactly when
\* the session has neither a symbol nor supplied figures, and such a call
\* leaves the session as it found it: no fetch, no lookup, no cache entry
C16_TopLevelError ==
    [][last'.op = "calculate_all_models" =>
          /\ ("error" \in DOMAIN last'.ret) <=> NothingSupplied
          /\ ("error" \in DOMAIN last'.ret) => session' = session]_vars

C16_Witness ==
    /\ last.op = "calculate_all_models"
    /\ DOMAIN last.ret = {"error"}
    /\ NothingSupplied
    /\ session = Fresh
    /\ session.fetches = NoFetches

\* the eight entries of the result
EightKeys ==
    {"fcfe", "fcff", "justified_pe", "justified_pb", "weighted_average", "summary",
     "sensitivity_analysis", "sector_peers"}

\* C17 as stated: on a session with a symbol or supplied figures
\* calculate_all_models raises nothing and its result holds all eight
\* entries, whatever the assumption set maps its names to
C17_AsStated ==
    (last.op = "calculate_all_models" /\ ~NothingSupplied) =>
        /\ ~last.raised
        /\ DOMAIN last.ret = EightKeys

\* the records calculate_fcff returned in the last call
FcffReports ==
    IF last.op = "calculate_fcff" THEN {last.ret}
    ELSE IF AllModelsRan THEN {last.ret.fcff}
    ELSE {}

\* the session's inputs make calculate_fcfe fail: a statement fetch raises,
\* the horizon is 0, or the cost of equity is -1
FcfeFails ==
    \/ FailsFor("fcfe")
    \/ RIsZero(RAdd(ONE, Get(assumptions, "cost_of_equity", DEFAULT_COST_OF_EQUITY)))

\* the session's inputs make calculate_fcff fail: a statement fetch raises,
\* the horizon is 0, or the wacc is no number or -1
FcffFails ==
    \/ FailsFor("fcff")
    \/ ~IsNum(Get(assumptions, "wacc", DEFAULT_WACC))
    \/ RIsZero(RAdd(ONE, Get(assumptions, "wacc", DEFAULT_WACC)))

\* C18: calculate_fcfe and calculate_fcff always return a record that holds
\* shareValue; when the run fails inside (a horizon of 0, a rate of -1, a
\* statement fetch that raises) the record is the error record and its
\* shareValue is 0
C18_ShareValuePresent ==
    /\ \A rep \in FcfeReports :
          /\ "shareValue" \in DOMAIN rep
          /\ FcfeFails => rep.shareValue = ZERO /\ "error" \in DOMAIN rep
          /\ "error" \in DOMAIN rep => rep.shareValue = ZERO
    /\ \A rep \in FcffReports :
          /\ "shareValue" \in DOMAIN rep
          /\ FcffFails => rep.shareValue = ZERO /\ "error" \in DOMAIN rep
          /\ "error" \in DOMAIN rep => rep.shareValue = ZERO

C18_Witness ==
    /\ last.op = "calculate_fcfe"
    /\ Get(assumptions, "cost_of_equity", ZERO) = RInt(-1)
    /\ last.ret = [shareValue |-> ZERO, error |-> "float division by zero"]

\* the first store key, in the order of the store, that contains the
\* subject's label or is contained in it
FirstSubstringKey ==
    LET all_sectors == world.sector_peers_file.all_sectors
    IN  all_sectors[CHOOSE i \in 1..Len(all_sectors) :
                       /\ all_sectors[i].key \in SubstringKeys
                       /\ \A j \in 1..(i - 1) : all_sectors[j].key \notin SubstringKeys].key

\* the store sector the chain exact match, alias table, substring containment
\* resolves the subject's label to, or None when no stage yields a sector of
\* the store
ChainResolves ==
    IF SubjectSector \in StoreKeys THEN SubjectSector
    ELSE IF AliasTargets \cap StoreKeys # {} THEN CHOOSE t \in AliasTargets \cap StoreKeys : TRUE
    ELSE IF SubstringKeys # {} THEN FirstSubstringKey
    ELSE None

\* get_sector_peers has looked the subject's label up in a store it could read
LookedUp ==
    /\ last.op = "get_sector_peers"
    /\ ~last.raised
    /\ SubjectSector # None
    /\ StoreReadable

\* C19 as stated: get_sector_peers reports the medians of the sector that the
\* chain exact match, alias table, substring containment resolves the label
\* to, and the 15.0 / 1.5 defaults only when none of the three stages yields a
\* sector of the store
C19_AsStated ==
    LookedUp =>
        IF ChainResolves = None
        THEN /\ "error" \in DOMAIN last.ret
             /\ last.ret.median_pe = R(15, 1)
             /\ last.ret.median_pb = R(15, 10)
        ELSE /\ "error" \notin DOMAIN last.ret
             /\ last.ret.median_pe =
                   Get(StoreEntry(world.sector_peers_file.all_sectors, ChainResolves),
                       "median_pe", None)
             /\ last.ret.median_pb =
                   Get(StoreEntry(world.sector_peers_file.all_sectors, ChainResolves),
                       "median_pb", None)

-----------------------------------------------------------------------------
(* calculate_all_models called again and again on one session with the same *)
(* assumption set: arg counts the calls made.                               *)

MaxCalls == 2

InitTwice ==
    /\ \E sc \in Scenarios :
          /\ session = NewSession(sc.stock_data, sc.stock_symbol)
          /\ world = sc.world
          /\ assumptions = sc.assumptions
    /\ arg = 0
    /\ last = [op |-> "init"]

CalculateAllModelsAgain ==
    /\ arg < MaxCalls
    /\ \E r \in {calculate_all_models(session, world, assumptions)} :
           /\ session' = r.self
           /\ last' = [op |-> "calculate_all_models", raised |-> r.raised, ret |-> r.ret,
                        locals |-> r.locals]
           /\ assumptions' = r.given
    /\ arg' = arg + 1
    /\ UNCHANGED world

SpecTwice == InitTwice /\ [][CalculateAllModelsAgain]_vars

\* the call that is made returns what the call before it returned
SameResult == last'.raised = last.raised /\ last'.ret = last.ret

\* the call that is made makes no call on the accessor and reads no file of
\* the kind
NoCallOn(accessor) == session'.fetches[accessor] = session.fetches[accessor]

\* C20 as stated: a second calculate_all_models call on the same session with
\* the same assumption set returns what the first returned and makes no
\* statement fetch, no price-board lookup and no read of the peer store
C20_AsStated ==
    [][arg >= 1 =>
          /\ SameResult
          /\ \A a \in StatementAccessors : NoCallOn(a)
          /\ NoCallOn("price_board")
          /\ NoCallOn("sector_peers_file")]_vars

\* C20, amended: the second call returns what the first returned and makes
\* no price-board lookup; it calls no statement accessor that returns a table
\* and does not read a peer store that can be parsed: only the fetches and
\* reads that failed in the first call are made again
C20_RepeatedCall ==
    [][arg >= 1 =>
          /\ SameResult
          /\ \A a \in StatementAccessors : ReturnsTable(a) => NoCallOn(a)
          /\ NoCallOn("price_board")
          /\ (world.sector_peers_file = None \/ StoreReadable) =>
                NoCallOn("sector_peers_file")]_vars

C20_Witness ==
    /\ arg = 2
    /\ AllModelsRan
    /\ HasStock(session)
    /\ RPos(last.ret.weighted_average)
    /\ last.ret.sensitivity_analysis # None
    /\ \A a \in StatementAccessors : session.fetches[a] = [year |-> 1]
    /\ session.fetches.price_board = 1
    /\ session.fetches.sector_peers_file = 1

-----------------------------------------------------------------------------
(* Two sessions side by side.  An instance holds its three dict caches by   *)
(* reference: heap[a] is the dict at address a, and a cache write through   *)
(* one instance is seen by every instance that holds the same address.  In  *)
(* SpecTwo session, world, assumptions and last are pairs, one entry per    *)
(* instance, and arg holds the heap, the number of calls made on each       *)
(* instances, and for each instance the same calls made on a session that   *)
(* runs alone (the code keeps no such copy, the properties use it).         *)

MaxCallsBoth == 3

DictCaches == {"income_data_cache", "cash_flow_data_cache", "balance_data_cache"}

\* the dicts are attributes of the class, created once and shared by all instances
Construct_ClassLevel(heap, stock_data, stock_symbol) ==
    [heap |-> IF heap = <<>> THEN << <<>>, <<>>, <<>> >> ELSE heap,
     instance |-> [NewSession(stock_data, stock_symbol) EXCEPT
                     !.income_data_cache = 1,
                     !.cash_flow_data_cache = 2,
                     !.balance_data_cache = 3]]

\* __init__: each of the three `= {}` allocates a dict of the instance's own
Construct(heap, stock_data, stock_symbol) ==
    [heap |-> heap \o << <<>>, <<>>, <<>> >>,
     instance |-> [NewSession(stock_data, stock_symbol) EXCEPT
                     !.income_data_cache = Len(heap) + 1,
                     !.cash_flow_data_cache = Len(heap) + 2,
                     !.balance_data_cache = Len(heap) + 3]]

\* the instance with its dicts read through their references
SelfOf(heap, instance) ==
    [instance EXCEPT !.income_data_cache = heap[@],
                     !.cash_flow_data_cache = heap[@],
                     !.balance_data_cache = heap[@]]

\* the heap after a method has left the instance as self: the dicts are
\* written in place (self._income_data_cache[cache_key] = ...)
HeapAfter(heap, instance, self) ==
    [a \in DOMAIN heap |->
        IF a = instance.balance_data_cache THEN self.balance_data_cache
        ELSE IF a = instance.cash_flow_data_cache THEN self.cash_flow_data_cache
        ELSE IF a = instance.income_data_cache THEN self.income_data_cache
        ELSE heap[a]]

\* the instance after the method: its plain attributes as the method left
\* them, its dict attributes never rebound
InstanceAfter(instance, self) ==
    [self EXCEPT !.income_data_cache = instance.income_data_cache,
                 !.cash_flow_data_cache = instance.cash_flow_data_cache,
                 !.balance_data_cache = instance.balance_data_cache]

\* the tickers of the two sessions, as the caller gives them
TwoSymbols == << <<"v", "c", "b">>, <<"b", "i", "d">> >>

BothFiles == (VCB :> [sector |-> SUBJECT_COMMERCIAL_BANKS]) @@ (BID :> [sector |-> SUBJECT_REAL])

\* what the accessors answer for the first symbol
FirstWorlds ==
    { [Listed EXCEPT !.stock_files = BothFiles],
      [Listed EXCEPT !.stock_files = BothFiles, !.cash_flow = Raises] }

\* what they answer for the second symbol: other reports, other share count
SecondListed ==
    [Listed EXCEPT
       !.stock_files = BothFiles,
       !.income_statement =
           Answer(Reports(<<NET_PROFIT, INTEREST_EXPENSES>>, << <<20, -2>>, <<30, -3>> >>)),
       !.balance_sheet =
           Answer(Reports(<<ST_BORROWINGS, CASH_EQ, OWNERS_EQUITY_BN>>,
                          << <<2, 3, 70>>, <<4, 5, 80>> >>)),
       !.price_board = PriceBoard(40)]

SecondWorlds ==
    { SecondListed,
      [SecondListed EXCEPT !.income_statement = Raises],
      [SecondListed EXCEPT !.price_board = Raises] }

InitTwo ==
    /\ \E w1 \in FirstWorlds, w2 \in SecondWorlds :
          /\ world = <<w1, w2>>
          /\ \E c1 \in {Construct(<<>>, <<>>, TwoSymbols[1])} :
             \E c2 \in {Construct(c1.heap, <<>>, TwoSymbols[2])} :
                /\ session = <<c1.instance, c2.instance>>
                /\ arg = [heap |-> c2.heap, calls |-> <<0, 0>>,
                          alone |-> <<NewSession(<<>>, TwoSymbols[1]),
                                      NewSession(<<>>, TwoSymbols[2])>>,
                          result |-> <<[op |-> "init"], [op |-> "init"]>>]
    /\ assumptions = <<OneYear, OneYear>>
    /\ last = <<[op |-> "init"], [op |-> "init"]>>

\* what a call returned or that it raised
Outcome(op, r) ==
    IF "raised" \in DOMAIN r /\ r.raised
    THEN [op |-> op, raised |-> TRUE]
    ELSE [op |-> op, raised |-> FALSE, ret |-> r.ret]

\* a call on instance i that leaves it as r.self, and the same call on the
\* session that runs alone, which leaves that as ra.self
CallOn(i, op, r, ra) ==
    /\ session' = [session EXCEPT ![i] = InstanceAfter(@, r.self)]
    /\ last' = [last EXCEPT ![i] = Outcome(op, r)]
    /\ arg' = [arg EXCEPT !.heap = HeapAfter(@, session[i], r.self),
                          !.calls[i] = @ + 1,
                          !.alone[i] = ra.self,
                          !.result[i] = Outcome(op, ra)]
    /\ UNCHANGED <<world, assumptions>>

TwoCalculateFcff(i) ==
    /\ arg.calls[1] + arg.calls[2] < MaxCallsBoth
    /\ \E r \in {calculate_fcff(SelfOf(arg.heap, session[i]), world[i], assumptions[i])} :
       \E ra \in {calculate_fcff(arg.alone[i], world[i], assumptions[i])} :
          CallOn(i, "calculate_fcff", r, ra)

TwoGetCachedData(i) ==
    /\ arg.calls[1] + arg.calls[2] < MaxCallsBoth
    /\ \E get \in { <<"income_data_cache", "income_statement">>,
                    <<"cash_flow_data_cache", "cash_flow">>,
                    <<"balance_data_cache", "balance_sheet">> } :
       \E r \in {get_cached_data(SelfOf(arg.heap, session[i]), world[i],
                                 get[1], get[2], "year")} :
       \E ra \in {get_cached_data(arg.alone[i], world[i], get[1], get[2], "year")} :
          CallOn(i, get[2], r, ra)

TwoGetSharesOutstanding(i) ==
    /\ arg.calls[1] + arg.calls[2] < MaxCallsBoth
    /\ \E r \in {get_shares_outstanding(SelfOf(arg.heap, session[i]), world[i])} :
       \E ra \in {get_shares_outstanding(arg.alone[i], world[i])} :
          CallOn(i, "get_shares_outstanding", r, ra)

TwoGetSectorPeers(i) ==
    /\ arg.calls[1] + arg.calls[2] < MaxCallsBoth
    /\ \E r \in {get_sector_peers(SelfOf(arg.heap, session[i]), world[i], NUM_PEERS)} :
       \E ra \in {get_sector_peers(arg.alone[i], world[i], NUM_PEERS)} :
          CallOn(i, "get_sector_peers", r, ra)

NextTwo ==
    \/ \E i \in 1..2 : TwoCalculateFcff(i)
    \/ \E i \in 1..2 : TwoGetCachedData(i)
    \/ \E i \in 1..2 : TwoGetSharesOutstanding(i)
    \/ \E i \in 1..2 : TwoGetSectorPeers(i)

SpecTwo == InitTwo /\ [][NextTwo]_vars

\* instance i made a cached-getter fetch or a model run that filled a cache
Filled(i) ==
    \E c \in DictCaches : SelfOf(arg.heap, session[i])[c] # <<>>

(* C21: two sessions for different symbols share no mutable state: after    *)
(* any interleaving of calls on the two, each session's caches and its      *)
(* latest result are those of the same calls made on a session that runs    *)
(* alone, so no call on one session changes what the other's cached getters *)
(* return.                                                                  *)
C21_Independent ==
    \A i \in 1..2 :
        /\ SelfOf(arg.heap, session[i]) = arg.alone[i]
        /\ last[i] = arg.result[i]

\* both sessions have filled caches, the second after the first, and the
\* tables they hold for the same key differ
C21_Witness ==
    /\ Filled(1) /\ Filled(2)
    /\ arg.calls[1] > 0 /\ arg.calls[2] > 0
    /\ "year" \in DOMAIN arg.heap[session[1].income_data_cache]
    /\ "year" \in DOMAIN arg.heap[session[2].income_data_cache]
    /\ arg.heap[session[1].income_data_cache]["year"]
         # arg.heap[session[2].income_data_cache]["year"]
    /\ last[2].op = "calculate_fcff" /\ RPos(last[2].ret.shareValue)

-----------------------------------------------------------------------------
(* Further properties of calculate_all_models, checked under Spec.          *)

\* the caller's assumption set with only wacc and terminal_growth replaced by
\* the i-th rate and the j-th growth of the grid
Substituted(given, i, j) ==
    With(given,
         [wacc |-> GridRange(Get(given, "wacc", DEFAULT_WACC))[i],
          terminal_growth |->
              GridRange(Get(given, "terminal_growth", DEFAULT_TERMINAL_GROWTH))[j]])

\* the truncated shareValue of a calculate_fcff call made on its own
ProbeValue(self, given) == RTrunc(calculate_fcff(self, world, given).ret.shareValue)

\* the step is a calculate_all_models call that reports a grid
GridBuilt ==
    /\ last'.op = "calculate_all_models"
    /\ ~last'.raised
    /\ "sensitivity_analysis" \in DOMAIN last'.ret
    /\ last'.ret.sensitivity_analysis # None

\* C22: every cell (i, j) of the sensitivity values is the truncated
\* shareValue that calculate_fcff returns, before the call as after it, for
\* the caller's assumption set with only wacc replaced by the i-th rate and
\* terminal_growth by the j-th growth; the centre cell is the truncated
\* shareValue of the main fcff result; and the caller's assumption set is as
\* it was before the call
C22_GridCells ==
    [][GridBuilt =>
          /\ \A i \in 1..5 : \A j \in 1..5 :
                /\ last'.ret.sensitivity_analysis.values[i][j]
                      = ProbeValue(session, Substituted(assumptions, i, j))
                /\ last'.ret.sensitivity_analysis.values[i][j]
                      = ProbeValue(session', Substituted(assumptions, i, j))
          /\ last'.ret.sensitivity_analysis.values[3][3]
                = RTrunc(last'.ret.fcff.shareValue)
          /\ assumptions' = assumptions]_vars

\* a grid whose cells differ along both axes, built for a caller who gave a
\* rate and a growth, over a main result that truncation changes
C22_Witness ==
    /\ GridReported
    /\ "wacc" \in DOMAIN assumptions /\ "terminal_growth" \in DOMAIN assumptions
    /\ last.ret.sensitivity_analysis.values[3][1] < last.ret.sensitivity_analysis.values[3][3]
    /\ last.ret.sensitivity_analysis.values[1][3] > last.ret.sensitivity_analysis.values[3][3]
    /\ last.ret.sensitivity_analysis.values[3][3] > 0
    /\ RInt(last.ret.sensitivity_analysis.values[3][3]) # last.ret.fcff.shareValue

\* the growth rate the claim has both cash-flow models read
GrowthRead ==
    Get(assumptions, "short_term_growth", Get(assumptions, "revenue_growth", R(5, 100)))

\* the first projected flow is the base flow grown once at the rate
GrownAt(base, projected, rate) == projected[1] = RMul(base, RAdd(ONE, rate))

\* C23 as stated: calculate_fcfe and calculate_fcff project their base flows
\* at the same growth rate, which is short_term_growth, else revenue_growth,
\* else 0.05
C23_AsStated ==
    /\ \A e \in FcfeReports :
          "baseFCFE" \in DOMAIN e =>
              /\ e.assumptions.shortTermGrowth = GrowthRead
              /\ GrownAt(e.baseFCFE, e.projectedCashFlows, GrowthRead)
    /\ \A f \in FcffReports :
          "baseFCFF" \in DOMAIN f =>
              /\ f.assumptions.shortTermGrowth = GrowthRead
              /\ GrownAt(f.baseFCFF, f.projectedCashFlows, GrowthRead)

\* the statement an accessor answers, normalised to the requested frequency
Processed(accessor) ==
    check_data_frequency(world[accessor].data, Get(assumptions, "data_frequency", "year"))

\* the value find_financial_value resolves for a line item of that statement
ResolvedIn(accessor, names) ==
    RInt(find_financial_value(Processed(accessor).data, names,
                              Processed("income_statement").freq = "quarter"))

\* the base flows calculate_fcfe reports in a symbol-backed session
StatementFcfe == { e \in FcfeReports : HasStock(session) /\ "baseFCFE" \in DOMAIN e }

\* net income + non-cash charges - (receivables + inventories - payables)
\* + fixed-capital investment, each as resolved
FlowBeforeBorrowing ==
    RAdd(RSub(RAdd(ResolvedIn("income_statement", <<NET_PROFIT>>),
                   ResolvedIn("cash_flow", <<DEPRECIATION>>)),
              RSub(RAdd(ResolvedIn("cash_flow", <<RECEIVABLES>>),
                        ResolvedIn("cash_flow", <<INVENTORIES>>)),
                   ResolvedIn("cash_flow", <<PAYABLES>>))),
         ResolvedIn("cash_flow", <<PURCHASE_FIXED, DISPOSAL_FIXED>>))

\* C24 as stated: the base flow of calculate_fcfe takes net borrowing as the
\* resolved proceeds minus the resolved repayments
C24_AsStated ==
    \A e \in StatementFcfe :
        e.baseFCFE = RAdd(FlowBeforeBorrowing,
                          RSub(ResolvedIn("cash_flow", <<PROCEEDS_BORROWINGS>>),
                               ResolvedIn("cash_flow", <<REPAYMENT_BORROWINGS>>)))

\* C24, amended: in a symbol-backed session the base flow of calculate_fcfe is
\* netIncome + nonCashCharges + (proceedsBorrowings + repaymentBorrowings)
\* - (receivablesChange + inventoriesChange - payablesChange)
\* + fixedCapitalInvestment, each term as find_financial_value resolves it:
\* net borrowing is the sum of the two resolved values, the repayments being
\* resolved with the sign the statement gives them
C24_BaseFlow ==
    \A e \in StatementFcfe :
        /\ e.inputs.netBorrowing
              = RAdd(ResolvedIn("cash_flow", <<PROCEEDS_BORROWINGS>>),
                     ResolvedIn("cash_flow", <<REPAYMENT_BORROWINGS>>))
        /\ e.baseFCFE = RAdd(FlowBeforeBorrowing, e.inputs.netBorrowing)

\* a base flow over a statement with proceeds and with repayments, which the
\* statement reports as an outflow
C24_Witness ==
    /\ StatementFcfe # {}
    /\ RPos(ResolvedIn("cash_flow", <<PROCEEDS_BORROWINGS>>))
    /\ RPos(RNeg(ResolvedIn("cash_flow", <<REPAYMENT_BORROWINGS>>)))
    /\ ~RIsZero(FlowBeforeBorrowing)
    /\ \E e \in StatementFcfe : RPos(e.baseFCFE)

\* the reports of calculate_fcff that carry a base flow
FcffFlows == { f \in FcffReports : "baseFCFF" \in DOMAIN f }

\* the interest expense calculate_fcff starts from: resolved from the income
\* statement in a symbol-backed session, supplied otherwise
InterestInput ==
    IF HasStock(session) THEN ResolvedIn("income_statement", <<INTEREST_EXPENSES>>)
    ELSE Get(session.stock_data, "interest_expense", ZERO)

\* C25 as stated: the after-tax interest term of calculate_fcff is
\* |interest expense| x (1 - tax rate) whatever the sign of the interest
\* expense, with and without a symbol, so it is never negative for a tax rate
\* in [0, 1]; the equity value is enterpriseValue - totalDebt + cash and the
\* share value is the equity value over the shares when these are positive
C25_AsStated ==
    \A f \in FcffFlows :
        /\ f.inputs.interestAfterTax
              = RMul(RAbs(InterestInput), RSub(ONE, f.assumptions.taxRate))
        /\ (RLe(ZERO, f.assumptions.taxRate) /\ RLe(f.assumptions.taxRate, ONE))
              => RLe(ZERO, f.inputs.interestAfterTax)
        /\ f.equityValue = RAdd(RSub(f.enterpriseValue, f.totalDebt), f.cash)
        /\ RPos(f.sharesOutstanding)
              => f.shareValue = RDiv(f.equityValue, f.sharesOutstanding)

\* the sector median the peer lookup of the session gave under a key, None
\* when it gave none
SectorMedian(key) ==
    IF session.sector_peers_cache # None /\ key \in DOMAIN session.sector_peers_cache
    THEN session.sector_peers_cache[key]
    ELSE None

\* the multiple the claims name: the sector median when it is a positive
\* number, the market average otherwise
MultipleNamed(key, market) ==
    IF SectorMedian(key) # None /\ RPos(SectorMedian(key)) THEN SectorMedian(key)
    ELSE market

\* the peer store is there and reading it raises
StoreUnparsable ==
    /\ SubjectSector # None
    /\ world.sector_peers_file # None
    /\ world.sector_peers_file.unreadable

\* C26 as stated: calculate_justified_pe returns 0 whenever the earnings per
\* share are not positive and otherwise m x EPS, m being the sector median P/E
\* when that is a positive number and 15.0 otherwise; it is never negative
C26_AsStated ==
    \A ret \in PeReports :
        ~SubjectEps.raised =>
            /\ RLe(SubjectEps.current_eps, ZERO) => ret = ZERO
            /\ RPos(SubjectEps.current_eps)
                  => ret = RMul(MultipleNamed("median_pe", R(15, 1)), SubjectEps.current_eps)
            /\ RLe(ZERO, ret)

\* C26, amended: calculate_justified_pe returns 0 whenever the earnings per
\* share are not positive, and also when the income statement cannot be
\* fetched or reading the peer store raises; otherwise it returns m x EPS, m
\* being the sector median P/E when that is a positive number and 15.0
\* otherwise; it is never negative
C26_EarningsMultiple ==
    \A ret \in PeReports :
        /\ SubjectEps.raised => ret = ZERO
        /\ ~SubjectEps.raised =>
              /\ RLe(SubjectEps.current_eps, ZERO) => ret = ZERO
              /\ (RPos(SubjectEps.current_eps) /\ StoreUnparsable) => ret = ZERO
              /\ (RPos(SubjectEps.current_eps) /\ ~StoreUnparsable)
                    => ret = RMul(MultipleNamed("median_pe", R(15, 1)),
                                  SubjectEps.current_eps)
        /\ RLe(ZERO, ret)

\* the model has returned the sector median times positive earnings per share
C26_Witness ==
    /\ PeReports # {}
    /\ ~SubjectEps.raised
    /\ RPos(SubjectEps.current_eps)
    /\ SectorMedian("median_pe") = R(12, 1)
    /\ \A ret \in PeReports : ret = RMul(R(12, 1), SubjectEps.current_eps)

\* the balance sheet of the subject can be fetched and normalised
BalanceAtHand ==
    /\ HasStock(session)
    /\ ~world.balance_sheet.raises
    /\ ~Processed("balance_sheet").raised

\* the value of the equity line item of the balance sheet, 0 when none resolves
EquityLine == ScanEquityColumns(Processed("balance_sheet").data, 1, ZERO)

\* total assets minus total liabilities, each as find_financial_value
\* resolves it
AssetsLessLiabilities ==
    RSub(RInt(find_financial_value(Processed("balance_sheet").data,
                                   <<TOTAL_ASSETS, TOTAL_ASSETS_UP>>, FALSE)),
         RInt(find_financial_value(Processed("balance_sheet").data,
                                   <<TOTAL_LIABILITIES, TOTAL_LIABILITIES_UP>>, FALSE)))

\* the book value per share the claim names
BvpsNamed ==
    PerShare(IF ~RIsZero(EquityLine) THEN EquityLine ELSE AssetsLessLiabilities,
             session.shares_outstanding_cache)

-----------------------------------------------------------------------------
(* A further property of check_data_frequency, checked under SpecFreq.      *)

\* the table given has the (yearReport, lengthReport) column pair
HasPeriodPair ==
    /\ "data" \in DOMAIN arg
    /\ HasColumn(arg.data, COL_yearReport)
    /\ HasColumn(arg.data, COL_lengthReport)

\* the rows of the table given in descending order of (year, length)
Descending ==
    sort_values(arg.data, <<ColumnIndex(arg.data, COL_yearReport),
                            ColumnIndex(arg.data, COL_lengthReport)>>).rows

\* the rows of the table given that report a full year
FullYearRows ==
    { i \in 1..Len(arg.data.rows) :
        arg.data.rows[i][ColumnIndex(arg.data, COL_lengthReport)] = Num(4) }

\* no full-year row of the table given has a later year than row r
LatestFullYear(r) ==
    /\ r[ColumnIndex(arg.data, COL_lengthReport)] = Num(4)
    /\ \A i \in FullYearRows :
          LET y == arg.data.rows[i][ColumnIndex(arg.data, COL_yearReport)]
              mine == r[ColumnIndex(arg.data, COL_yearReport)]
          IN  y = NaN \/ (mine # NaN /\ y[1] <= mine[1])

\* C28 as stated: on a table with the (yearReport, lengthReport) pair, a
\* 'year' request returns the row of the greatest year among the rows whose
\* lengthReport is 4 when there is one, and otherwise the first row of the
\* table in descending order of (year, length); a 'quarter' request returns
\* the first min(4, row count) rows of that order, without an error
C28_AsStated ==
    (last.op = "check_data_frequency" /\ HasPeriodPair) =>
        IF arg.expected_frequency = "year"
        THEN /\ ~last.ret.raised
             /\ IF FullYearRows # {}
                THEN /\ Len(last.ret.data.rows) = 1
                     /\ LatestFullYear(last.ret.data.rows[1])
                     /\ \E i \in FullYearRows : arg.data.rows[i] = last.ret.data.rows[1]
                ELSE last.ret.data.rows = SubSeq(Descending, 1, Min(1, Len(Descending)))
        ELSE /\ ~last.ret.raised
             /\ last.ret.data.rows = SubSeq(Descending, 1, Min(4, Len(Descending)))

\* the caches of the three statements with their accessors
StatementCaches ==
    { <<"income_data_cache", "income_statement">>,
      <<"cash_flow_data_cache", "cash_flow">>,
      <<"balance_data_cache", "balance_sheet">> }

\* the table that was stored under a cache key when it was fetched
AsFetched(accessor) == IF HasStock(session) THEN world[accessor].data ELSE EmptyDataFrame

\* C29: the statement tables held in the session caches are never modified
\* after they are stored: after any sequence of model runs and
\* calculate_all_models calls, every cache holds under every key the table
\* that was fetched, the frequency normalisation having worked on copies
C29_TablesKept ==
    \A c \in StatementCaches :
        \A period \in DOMAIN session[c[1]] : session[c[1]][period] = AsFetched(c[2])

\* the models have run over a cached income statement whose date column
\* the normalisation re-parses, and over cached statements that it sorts
C29_Witness ==
    /\ AllModelsRan
    /\ "year" \in DOMAIN session.income_data_cache
    /\ session.income_data_cache["year"] = DatedIncomeStatement
    /\ LeftInArgument(DatedIncomeStatement, "year") # DatedIncomeStatement
    /\ "year" \in DOMAIN session.cash_flow_data_cache
    /\ "baseFCFE" \in DOMAIN last.ret.fcfe
    /\ RPos(last.ret.justified_pe)

\* the model names that the weight map holds
NamedModels == FourModels \cap DOMAIN Weights

\* the models with a strictly positive value that the weight map leaves out
LeftOut == PositiveModels \ NamedModels

\* C30: a model that the weight map leaves out is excluded from the aggregate
\* even when its value is strictly positive: weighted_average is the weighted
\* mean of the named positive models alone, models_used, average, min and max
\* are taken over them alone, models_used never exceeds the number of model
\* names in the weight map, and a summary that is reported gives total_models
\* as 4
C30_LeftOutExcluded ==
    AllModelsRan =>
        /\ (PositiveModels \ LeftOut = {})
              => last.ret.weighted_average = ZERO /\ last.ret.summary = <<>>
        /\ last.ret.summary # <<>> =>
              /\ last.ret.summary.total_models = 4
              /\ last.ret.summary.models_used = Cardinality(PositiveModels \ LeftOut)
              /\ last.ret.summary.models_used <= Cardinality(NamedModels)
              /\ \E k \in PositiveModels \ LeftOut : last.ret.summary.min = ModelValue(k)
              /\ \E k \in PositiveModels \ LeftOut : last.ret.summary.max = ModelValue(k)
              /\ \A k \in PositiveModels \ LeftOut :
                    /\ RLe(last.ret.summary.min, ModelValue(k))
                    /\ RLe(ModelValue(k), last.ret.summary.max)
              /\ RMul(last.ret.summary.average, RInt(last.ret.summary.models_used))
                    = OverValid(ValueOf)
              /\ RMul(last.ret.weighted_average, OverValid(WeightOf))
                    = OverValid(WeightedValueOf)

\* a weight map that names one model and one name that is no model, over
\* results in which the models left out have positive values, one of them
\* above and one below the value of the model that counts
C30_Witness ==
    /\ AllModelsRan
    /\ NamedModels = {"fcfe"}
    /\ LeftOut # {}
    /\ last.ret.summary # <<>>
    /\ last.ret.summary.models_used = 1
    /\ last.ret.weighted_average = ModelValue("fcfe")
    /\ \E k \in LeftOut : RLt(last.ret.summary.max, ModelValue(k))

====
